---------------------------- MODULE Spec2Model ----------------------------
(***************************************************************************)
(* Verification model of the RelNo_D1 procedural-noise library.            *)
(*                                                                         *)
(* The library is a collection of functions over float grids.  The model   *)
(* follows one call of a map generator through its steps (validation,      *)
(* construction of the generator, allocation, octave passes,               *)
(* normalisation, return) and keeps the objects the functions own (the     *)
(* permutation tables, the grids) as state.  Generator objects queried     *)
(* directly (SpecGen, SpecIndex) and the post-processing utilities         *)
(* (SpecPost) have their own variables and next-state relations.           *)
(*                                                                         *)
(* C++ `float` arithmetic is modelled as binary floating point with a      *)
(* MantBits-bit significand, an unbounded exponent and round-to-nearest-   *)
(* even after every operation: every C++ float operation is one F*         *)
(* operator below.  NaN and infinities are not represented.                *)
(***************************************************************************)
EXTENDS Integers, Sequences, FiniteSets, TLC

\* ------------------------------------------------------------------------
\* Floating point
\* ------------------------------------------------------------------------

\* Width of the significand of the modelled `float`.  (binary32 has 24 bits;
\* 15 is the widest significand whose products stay inside 32-bit
\* integers.)
MantBits == 15

Pow2(n) == 2 ^ n

Abs(n) == IF n < 0 THEN -n ELSE n

Sgn(n) == IF n < 0 THEN -1 ELSE 1

RECURSIVE BitLen(_)
BitLen(n) == IF n = 0 THEN 0 ELSE 1 + BitLen(n \div 2)

FZero == [m |-> 0, e |-> 0]

\* The float nearest to m * 2^e (ties to even), in normal form:
\* 2^(MantBits-1) <= |m| < 2^MantBits, or zero.
Norm(m, e) ==
    IF m = 0 THEN FZero
    ELSE LET a   == Abs(m)
             len == BitLen(a)
         IN  IF len > MantBits
             THEN LET s    == len - MantBits
                      q0   == a \div Pow2(s)
                      rem  == a % Pow2(s)
                      half == Pow2(s - 1)
                      q    == IF rem > half \/ (rem = half /\ q0 % 2 = 1)
                              THEN q0 + 1 ELSE q0
                  IN  IF q = Pow2(MantBits)
                      THEN [m |-> Sgn(m) * Pow2(MantBits - 1), e |-> e + s + 1]
                      ELSE [m |-> Sgn(m) * q, e |-> e + s]
             ELSE [m |-> m * Pow2(MantBits - len), e |-> e - (MantBits - len)]

\* int -> float conversion
FromInt(n) == Norm(n, 0)

FNeg(a) == [m |-> -a.m, e |-> a.e]

FAdd(a, b) ==
    IF a.m = 0 THEN b
    ELSE IF b.m = 0 THEN a
    ELSE LET hi == IF a.e >= b.e THEN a ELSE b
             lo == IF a.e >= b.e THEN b ELSE a
             d  == hi.e - lo.e
         IN  IF d > MantBits + 1 THEN hi
             ELSE Norm(hi.m * Pow2(d) + lo.m, lo.e)

FSub(a, b) == FAdd(a, FNeg(b))

FMul(a, b) == Norm(a.m * b.m, a.e + b.e)

\* a / b for b # 0; the quotient keeps a sticky bit so that the rounding in
\* Norm is the rounding of the exact quotient.
FDiv(a, b) ==
    LET num == Abs(a.m) * Pow2(MantBits + 1)
        q   == num \div Abs(b.m)
        r   == num % Abs(b.m)
        qs  == 2 * q + (IF r # 0 THEN 1 ELSE 0)
    IN  Norm(Sgn(a.m) * Sgn(b.m) * qs, a.e - b.e - MantBits - 2)

FLt(a, b) == FSub(a, b).m < 0
FLe(a, b) == FSub(a, b).m <= 0
FGt(a, b) == FLt(b, a)
FGe(a, b) == FLe(b, a)

FMin(a, b) == IF FLt(b, a) THEN b ELSE a
FMax(a, b) == IF FLt(a, b) THEN b ELSE a

\* the conversion (int)a, which rounds toward zero, in place of FFloorInt
FFloorIntTruncating(a) ==
    IF a.e >= 0 THEN a.m * Pow2(a.e)
    ELSE IF -a.e > 30 THEN 0
    ELSE Sgn(a.m) * (Abs(a.m) \div Pow2(-a.e))

\* (int)std::floor(a)
FFloorInt(a) ==
    IF a.e >= 0 THEN a.m * Pow2(a.e)
    ELSE IF -a.e > 30 THEN (IF a.m < 0 THEN -1 ELSE 0)
    ELSE a.m \div Pow2(-a.e)

\* std::floor(a)
FFloor(a) == FromInt(FFloorInt(a))

\* The float literal n/d
Lit(n, d) == FDiv(FromInt(n), FromInt(d))

FOne == FromInt(1)

\* ------------------------------------------------------------------------
\* Integer helpers
\* ------------------------------------------------------------------------

RECURSIVE BitAndNat(_, _)
BitAndNat(a, b) ==
    IF a = 0 \/ b = 0 THEN 0
    ELSE (a % 2) * (b % 2) + 2 * BitAndNat(a \div 2, b \div 2)

\* a & mask on two's-complement int a, for a mask >= 0.  For a < 0 the bits
\* of a are the complement of the bits of -a-1.
BitAnd(a, mask) ==
    IF a >= 0 THEN BitAndNat(a, mask)
    ELSE mask - BitAndNat(-a - 1, mask)

\* ------------------------------------------------------------------------
\* Permutation tables
\* ------------------------------------------------------------------------

\* Number of distinct table values; the table is stored twice over.
TableSize == 256

\* Stand-in for std::mt19937: a generator whose whole state is determined by
\* the value it is seeded with and which then yields a fixed sequence.
RngModulus == 65537
RngSeed(v) == v % RngModulus
RngNext(s) == (s * 75 + 74) % RngModulus

\* The values std::random_device may return (a nondeterministic input).
EntropyVals == {7, 11}

\* A table is held as a sequence; entry i of the C++ vector is At(p, i).
At(p, i) == p[i + 1]

\* the vector lo, lo+1, ..., hi
RECURSIVE IotaRange(_, _)
IotaRange(lo, hi) ==
    IF lo = hi THEN <<lo>>
    ELSE LET mid == (lo + hi) \div 2
         IN  IotaRange(lo, mid) \o IotaRange(mid + 1, hi)

\* p[i] = i for i in 0..255
Iota == IotaRange(0, TableSize - 1)

\* Swap that copies p[j] to p[i] and loses the old p[i]
SwapOverwrite(p, i, j) == [p EXCEPT ![i + 1] = At(p, j)]

\* std::swap(p[i], p[j])
Swap(p, i, j) == [p EXCEPT ![i + 1] = At(p, j), ![j + 1] = At(p, i)]

\* std::shuffle(p.begin(), p.end(), rng): for each position i from 1 up,
\* exchange p[i] with p[k] for a k drawn from 0..i.  ShuffleRange performs
\* the exchanges for positions lo..hi in order, threading the rng state.
ShuffleStep(st, i) ==
    LET s2 == RngNext(st.s)
    IN  [p |-> Swap(st.p, i, s2 % (i + 1)), s |-> s2]

RECURSIVE ShuffleRange(_, _, _)
ShuffleRange(st, lo, hi) ==
    IF lo > hi THEN st
    ELSE IF lo = hi THEN ShuffleStep(st, lo)
    ELSE LET mid  == (lo + hi) \div 2
             left == ShuffleRange(st, lo, mid)
         IN  IF left.s >= 0 THEN ShuffleRange(left, mid + 1, hi) ELSE left

Shuffle(p, s) == ShuffleRange([p |-> p, s |-> s], 1, TableSize - 1).p

\* PerlinNoise::PerlinNoise, given the value the rng is seeded with:
\* shuffle, then p.insert(p.end(), p.begin(), p.end())
PerlinTable(v) ==
    LET p == Shuffle(Iota, RngSeed(v))
    IN  p \o p

\* SimplexNoise::SimplexNoise, given the value the rng is seeded with:
\* shuffle, then perm[i] = p[i & 255] for i in 0..511
SimplexTable(v) ==
    LET p == Shuffle(Iota, RngSeed(v))
    IN  [k \in 1 .. 512 |-> At(p, BitAnd(k - 1, 255))]

\* ------------------------------------------------------------------------
\* Perlin kernel
\* ------------------------------------------------------------------------

fade(t) ==
    FMul(FMul(FMul(t, t), t),
         FAdd(FMul(t, FSub(FMul(t, FromInt(6)), FromInt(15))), FromInt(10)))

lerp(a, b, t) == FAdd(a, FMul(t, FSub(b, a)))

grad(hash, x, y) ==
    LET h == BitAnd(hash, 3)
        u == IF h < 2 THEN x ELSE y
        v == IF h < 2 THEN y ELSE x
    IN  FAdd(IF BitAnd(h, 1) # 0 THEN FNeg(u) ELSE u,
             IF BitAnd(h, 2) # 0 THEN FNeg(v) ELSE v)

\* the mask applied to the magnitude of the floor
LatticeIndexOfMagnitude(x) == BitAnd(Abs(FFloorInt(x)), 255)

\* (int)std::floor(x) & 255
LatticeIndex(x) == BitAnd(FFloorInt(x), 255)

\* the hashes aa, ab, ba, bb that select the gradients of the four corners
\* of the lattice cell of (x, y)
LatticeCorners(p, x, y) ==
    LET X == LatticeIndex(x)
        Y == LatticeIndex(y)
    IN  <<At(p, At(p, X) + Y), At(p, At(p, X) + Y + 1),
          At(p, At(p, X + 1) + Y), At(p, At(p, X + 1) + Y + 1)>>

\* PerlinNoise::noise without the final rescale to [0,1]
PerlinNoise_noiseRaw(p, x, y) ==
    LET X  == LatticeIndex(x)
        Y  == LatticeIndex(y)
        xf == FSub(x, FFloor(x))
        yf == FSub(y, FFloor(y))
        u  == fade(xf)
        v  == fade(yf)
        aa == At(p, At(p, X) + Y)
        ab == At(p, At(p, X) + Y + 1)
        ba == At(p, At(p, X + 1) + Y)
        bb == At(p, At(p, X + 1) + Y + 1)
        x1 == lerp(grad(aa, xf, yf), grad(ba, FSub(xf, FOne), yf), u)
        x2 == lerp(grad(ab, xf, FSub(yf, FOne)),
                   grad(bb, FSub(xf, FOne), FSub(yf, FOne)), u)
    IN  lerp(x1, x2, v)

\* PerlinNoise::noise on the table p
PerlinNoise_noise(p, x, y) ==
    LET X  == LatticeIndex(x)
        Y  == LatticeIndex(y)
        xf == FSub(x, FFloor(x))
        yf == FSub(y, FFloor(y))
        u  == fade(xf)
        v  == fade(yf)
        aa == At(p, At(p, X) + Y)
        ab == At(p, At(p, X) + Y + 1)
        ba == At(p, At(p, X + 1) + Y)
        bb == At(p, At(p, X + 1) + Y + 1)
        x1 == lerp(grad(aa, xf, yf), grad(ba, FSub(xf, FOne), yf), u)
        x2 == lerp(grad(ab, xf, FSub(yf, FOne)),
                   grad(bb, FSub(xf, FOne), FSub(yf, FOne)), u)
    IN  FDiv(FAdd(lerp(x1, x2, v), FOne), FromInt(2))

\* ------------------------------------------------------------------------
\* Simplex kernel
\* ------------------------------------------------------------------------

F2 == Lit(36602540, 100000000)
G2 == Lit(21132486, 100000000)

grad3 ==
    [g \in 0 .. 7 |->
        CASE g = 0 -> << 1,  1>>
          [] g = 1 -> <<-1,  1>>
          [] g = 2 -> << 1, -1>>
          [] g = 3 -> <<-1, -1>>
          [] g = 4 -> << 1,  0>>
          [] g = 5 -> <<-1,  0>>
          [] g = 6 -> << 0,  1>>
          [] g = 7 -> << 0, -1>>]

\* t*t*t*t * (grad3[gi][0]*x + grad3[gi][1]*y) for t >= 0, else 0
Corner(gi, x, y) ==
    LET t == FSub(FSub(Lit(1, 2), FMul(x, x)), FMul(y, y))
    IN  IF FGe(t, FZero)
        THEN LET tt == FMul(t, t)
             IN  FMul(FMul(tt, tt),
                      FAdd(FMul(FromInt(grad3[gi][1]), x),
                           FMul(FromInt(grad3[gi][2]), y)))
        ELSE FZero

\* the skewed cell (i, j) of the input point
SimplexCell(xin, yin) ==
    LET s == FMul(FAdd(xin, yin), F2)
    IN  [i |-> FFloorInt(FAdd(xin, s)), j |-> FFloorInt(FAdd(yin, s))]

\* SimplexNoise::noise2D with the scale constant 99 for 70
SimplexNoise_noise2DScaled(perm, xin, yin) ==
    LET c   == SimplexCell(xin, yin)
        i   == c.i
        j   == c.j
        t   == FMul(FromInt(i + j), G2)
        X0  == FSub(FromInt(i), t)
        Y0  == FSub(FromInt(j), t)
        x0  == FSub(xin, X0)
        y0  == FSub(yin, Y0)
        i1  == IF FGt(x0, y0) THEN 1 ELSE 0
        j1  == IF FGt(x0, y0) THEN 0 ELSE 1
        x1  == FAdd(FSub(x0, FromInt(i1)), G2)
        y1  == FAdd(FSub(y0, FromInt(j1)), G2)
        x2  == FAdd(FSub(x0, FOne), FMul(FromInt(2), G2))
        y2  == FAdd(FSub(y0, FOne), FMul(FromInt(2), G2))
        ii  == BitAnd(i, 255)
        jj  == BitAnd(j, 255)
        gi0 == At(perm, ii + At(perm, jj)) % 8
        gi1 == At(perm, ii + i1 + At(perm, jj + j1)) % 8
        gi2 == At(perm, ii + 1 + At(perm, jj + 1)) % 8
        n0  == Corner(gi0, x0, y0)
        n1  == Corner(gi1, x1, y1)
        n2  == Corner(gi2, x2, y2)
    IN  FMul(FromInt(99), FAdd(FAdd(n0, n1), n2))

\* SimplexNoise::noise2D on the table perm
SimplexNoise_noise2D(perm, xin, yin) ==
    LET c   == SimplexCell(xin, yin)
        i   == c.i
        j   == c.j
        t   == FMul(FromInt(i + j), G2)
        X0  == FSub(FromInt(i), t)
        Y0  == FSub(FromInt(j), t)
        x0  == FSub(xin, X0)
        y0  == FSub(yin, Y0)
        i1  == IF FGt(x0, y0) THEN 1 ELSE 0
        j1  == IF FGt(x0, y0) THEN 0 ELSE 1
        x1  == FAdd(FSub(x0, FromInt(i1)), G2)
        y1  == FAdd(FSub(y0, FromInt(j1)), G2)
        x2  == FAdd(FSub(x0, FOne), FMul(FromInt(2), G2))
        y2  == FAdd(FSub(y0, FOne), FMul(FromInt(2), G2))
        ii  == BitAnd(i, 255)
        jj  == BitAnd(j, 255)
        gi0 == At(perm, ii + At(perm, jj)) % 8
        gi1 == At(perm, ii + i1 + At(perm, jj + j1)) % 8
        gi2 == At(perm, ii + 1 + At(perm, jj + 1)) % 8
        n0  == Corner(gi0, x0, y0)
        n1  == Corner(gi1, x1, y1)
        n2  == Corner(gi2, x2, y2)
    IN  FMul(FromInt(70), FAdd(FAdd(n0, n1), n2))

\* ------------------------------------------------------------------------
\* Bounds and input sets
\* ------------------------------------------------------------------------

\* largest width and height of a generated map
MaxDim == 2

\* largest chunk size compared against a generated map
MaxChunk == 2

DimVals         == -1 .. MaxDim
ScaleVals       == {FromInt(-1), FZero, FromInt(3)}
OctaveVals      == {0, 1, 2, 4, 8}
FrequencyVals   == {FZero, FOne, FromInt(2)}
PersistenceVals == {Lit(-1, 2), FZero, Lit(1, 2), FOne, Lit(3, 2)}
LacunarityVals  == {FZero, FromInt(2)}
BaseVals        == {Lit(1, 2)}
SeedVals        == {-1, 0, 1}

\* ------------------------------------------------------------------------
\* State
\* ------------------------------------------------------------------------

VARIABLES
    pc,            \* position of the running generate_*_map call
    call,          \* its arguments
    err,           \* the exception it threw
    gen,           \* the permutation table of its local generator
    entropy,       \* number of std::random_device draws it made
    noise,         \* its grid, <<>> before allocation
    oct,           \* loop variable o
    amplitude,
    maxAmplitude,
    freq,
    inst,          \* the generator objects that exist, by identity
    last,          \* per generator object, its latest noise call
    postCall,      \* the running post-processing call and its arguments
    postOut,       \* how that call ended
    pinkCall,      \* the arguments of the running generate_pink_map call
    pinkOct,       \* its loop variable o
    phase,         \* where its main thread is in the octave
    integral,      \* the integral image of the octave's layer
    avg,           \* avgBuf of the octave
    nextRow,       \* the atomic row counter of the octave
    workers,       \* per thread: its position and its local y and x
    spawned,       \* number of threads started in the octave
    claimed,       \* per thread: the values of y below height it fetched
    writes         \* the stores to avg so far, as <<thread, index>>

mapVars == <<pc, call, err, gen, entropy, noise, oct, amplitude,
             maxAmplitude, freq>>

genVars == <<inst, last>>

postVars == <<postCall, postOut>>

poolVars == <<pinkCall, pinkOct, phase, integral, avg, nextRow, workers,
              spawned, claimed, writes>>

vars == <<mapVars, genVars, postVars, poolVars>>

NoCall == [kind |-> "none"]
NoErr  == [what |-> "none"]

InitMap ==
    /\ pc = "idle"
    /\ call = NoCall
    /\ err = NoErr
    /\ gen = <<>>
    /\ entropy = 0
    /\ noise = <<>>
    /\ oct = 0
    /\ amplitude = FZero
    /\ maxAmplitude = FZero
    /\ freq = FZero

NoInst == [kind |-> "none"]
NoSample == [kind |-> "none"]

InstIds == {1, 2}

InitGen ==
    /\ inst = [k \in InstIds |-> NoInst]
    /\ last = [k \in InstIds |-> NoSample]

NoPost == [fn |-> "none"]

InitPost ==
    /\ postCall = NoPost
    /\ postOut = NoPost

NoPink == [width |-> 0]

IdleWorker == [pc |-> "unstarted", y |-> 0, x |-> 0]

InitPool ==
    /\ pinkCall = NoPink
    /\ pinkOct = 0
    /\ phase = "idle"
    /\ integral = <<>>
    /\ avg = <<>>
    /\ nextRow = 0
    /\ workers = <<>>
    /\ spawned = 0
    /\ claimed = <<>>
    /\ writes = {}

\* the pool variables after the call: the buffers are freed
InitPoolNext ==
    /\ pinkCall' = NoPink
    /\ pinkOct' = 0
    /\ phase' = "idle"
    /\ integral' = <<>>
    /\ avg' = <<>>
    /\ nextRow' = 0
    /\ workers' = <<>>
    /\ spawned' = 0
    /\ claimed' = <<>>
    /\ writes' = {}

Init == InitMap /\ InitGen /\ InitPost /\ InitPool

\* ------------------------------------------------------------------------
\* generate_perlin_map
\* ------------------------------------------------------------------------

Throw(what, got) == [what |-> what, got |-> got]

\* PerlinValidate with the persistence check moved behind the lacunarity
\* check
PerlinValidateReordered(c) ==
    IF c.width <= 0 THEN Throw("width", c.width)
    ELSE IF c.height <= 0 THEN Throw("height", c.height)
    ELSE IF FLe(c.scale, FZero) THEN Throw("scale", c.scale)
    ELSE IF c.octaves < 1 THEN Throw("octaves", c.octaves)
    ELSE IF FLe(c.frequency, FZero) THEN Throw("frequency", c.frequency)
    ELSE IF FLe(c.lacunarity, FZero) THEN Throw("lacunarity", c.lacunarity)
    ELSE IF FLt(c.persistence, FZero) \/ FGt(c.persistence, FOne)
         THEN Throw("persistence", c.persistence)
    ELSE NoErr

\* the parameter checks, in source order
PerlinValidate(c) ==
    IF c.width <= 0 THEN Throw("width", c.width)
    ELSE IF c.height <= 0 THEN Throw("height", c.height)
    ELSE IF FLe(c.scale, FZero) THEN Throw("scale", c.scale)
    ELSE IF c.octaves < 1 THEN Throw("octaves", c.octaves)
    ELSE IF FLe(c.frequency, FZero) THEN Throw("frequency", c.frequency)
    ELSE IF FLt(c.persistence, FZero) \/ FGt(c.persistence, FOne)
         THEN Throw("persistence", c.persistence)
    ELSE IF FLe(c.lacunarity, FZero) THEN Throw("lacunarity", c.lacunarity)
    ELSE NoErr

\* (x + base) / scale * freq
SampleCoord(x, base, scale, f) == FMul(FDiv(FAdd(FromInt(x), base), scale), f)

\* std::vector<std::vector<float>>(height, std::vector<float>(width, 0.0f))
ZeroGrid(width, height) ==
    [y \in 0 .. height - 1 |-> [x \in 0 .. width - 1 |-> FZero]]

\* entry: the argument checks
PerlinCall ==
    /\ pc = "idle"
    /\ \E w \in DimVals, h \in DimVals, sc \in ScaleVals, oc \in OctaveVals,
          fr \in FrequencyVals, pe \in PersistenceVals,
          la \in LacunarityVals, ba \in BaseVals, sd \in SeedVals :
          LET c == [kind |-> "perlin", width |-> w, height |-> h,
                    scale |-> sc, octaves |-> oc, frequency |-> fr,
                    persistence |-> pe, lacunarity |-> la, base |-> ba,
                    seed |-> sd]
          IN  /\ call' = c
              /\ err' = PerlinValidate(c)
              /\ pc' = IF PerlinValidate(c) = NoErr THEN "construct"
                       ELSE "thrown"
    /\ UNCHANGED <<gen, entropy, noise, oct, amplitude, maxAmplitude, freq>>
    /\ UNCHANGED <<genVars, postVars, poolVars>>

\* PerlinNoise generator(seed)
PerlinConstruct ==
    /\ pc = "construct"
    /\ call.kind = "perlin"
    /\ IF call.seed >= 0
       THEN /\ gen' = PerlinTable(call.seed)
            /\ UNCHANGED entropy
       ELSE /\ \E rd \in EntropyVals : gen' = PerlinTable(rd)
            /\ entropy' = entropy + 1
    /\ pc' = "allocate"
    /\ UNCHANGED <<call, err, noise, oct, amplitude, maxAmplitude, freq>>
    /\ UNCHANGED <<genVars, postVars, poolVars>>

\* the grid and the loop variables
PerlinAllocate ==
    /\ pc = "allocate"
    /\ call.kind = "perlin"
    /\ noise' = ZeroGrid(call.width, call.height)
    /\ amplitude' = FOne
    /\ maxAmplitude' = FZero
    /\ freq' = call.frequency
    /\ oct' = 0
    /\ pc' = "octaves"
    /\ UNCHANGED <<call, err, gen, entropy>>
    /\ UNCHANGED <<genVars, postVars, poolVars>>

\* PerlinAccumulate sampling relative to the centre of the map
PerlinAccumulateCentred(grid, p, c, f, amp) ==
    [y \in 0 .. c.height - 1 |-> [x \in 0 .. c.width - 1 |->
        LET nx == SampleCoord(x - c.width \div 2, c.base, c.scale, f)
            ny == SampleCoord(y - c.height \div 2, c.base, c.scale, f)
        IN  FAdd(grid[y][x], FMul(PerlinNoise_noise(p, nx, ny), amp))]]

\* PerlinAccumulate weighting the running sum, not the new octave
PerlinAccumulateScaledSum(grid, p, c, f, amp) ==
    [y \in 0 .. c.height - 1 |-> [x \in 0 .. c.width - 1 |->
        LET nx == SampleCoord(x, c.base, c.scale, f)
            ny == SampleCoord(y, c.base, c.scale, f)
        IN  FMul(FAdd(grid[y][x], PerlinNoise_noise(p, nx, ny)), amp)]]

\* noise[y][x] after one more octave
PerlinAccumulate(grid, p, c, f, amp) ==
    [y \in 0 .. c.height - 1 |-> [x \in 0 .. c.width - 1 |->
        LET nx == SampleCoord(x, c.base, c.scale, f)
            ny == SampleCoord(y, c.base, c.scale, f)
        IN  FAdd(grid[y][x], FMul(PerlinNoise_noise(p, nx, ny), amp))]]

\* one iteration of the octave loop, all pixels
PerlinOctave ==
    /\ pc = "octaves"
    /\ call.kind = "perlin"
    /\ oct < call.octaves
    /\ noise' = PerlinAccumulate(noise, gen, call, freq, amplitude)
    /\ maxAmplitude' = FAdd(maxAmplitude, amplitude)
    /\ amplitude' = FMul(amplitude, call.persistence)
    /\ freq' = FMul(freq, call.lacunarity)
    /\ oct' = oct + 1
    /\ UNCHANGED <<pc, call, err, gen, entropy>>
    /\ UNCHANGED <<genVars, postVars, poolVars>>

\* the normalisation dividing by the number of octaves
PerlinNormalizeByOctaves(grid, c, maxAmp) ==
    [y \in 0 .. c.height - 1 |-> [x \in 0 .. c.width - 1 |->
        FDiv(grid[y][x], FromInt(c.octaves))]]

\* noise[y][x] /= maxAmplitude
PerlinNormalize(grid, c, maxAmp) ==
    [y \in 0 .. c.height - 1 |-> [x \in 0 .. c.width - 1 |->
        FDiv(grid[y][x], maxAmp)]]

\* the normalisation loop and the return
PerlinReturn ==
    /\ pc = "octaves"
    /\ call.kind = "perlin"
    /\ oct >= call.octaves
    /\ noise' = PerlinNormalize(noise, call, maxAmplitude)
    /\ pc' = "returned"
    /\ UNCHANGED <<call, err, gen, entropy, oct, amplitude, maxAmplitude, freq>>
    /\ UNCHANGED <<genVars, postVars, poolVars>>

\* ------------------------------------------------------------------------
\* Single-coordinate sampling and chunk generation (sample_perlin,
\* sample_simplex, generate_perlin_chunk).  The generator is the handle the
\* functions are given; it is not constructed anew.
\* ------------------------------------------------------------------------

\* the fractal parameters of a call, without the map's dimensions
FractalParams(c) ==
    [scale |-> c.scale, octaves |-> c.octaves, frequency |-> c.frequency,
     persistence |-> c.persistence, lacunarity |-> c.lacunarity,
     base |-> c.base]

FractalStart(f) == [sum |-> FZero, amp |-> FOne, maxAmp |-> FZero, f |-> f]

\* the accumulators after one more octave with kernel value n
FractalAdvance(acc, n, fp) ==
    [sum    |-> FAdd(acc.sum, FMul(n, acc.amp)),
     maxAmp |-> FAdd(acc.maxAmp, acc.amp),
     amp    |-> FMul(acc.amp, fp.persistence),
     f      |-> FMul(acc.f, fp.lacunarity)]

RECURSIVE PerlinFractal(_, _, _, _, _, _)
PerlinFractal(p, x, y, fp, o, acc) ==
    IF o >= fp.octaves THEN acc
    ELSE LET nx == FMul(FDiv(FAdd(x, fp.base), fp.scale), acc.f)
             ny == FMul(FDiv(FAdd(y, fp.base), fp.scale), acc.f)
         IN  PerlinFractal(p, x, y, fp, o + 1,
                           FractalAdvance(acc, PerlinNoise_noise(p, nx, ny), fp))

\* sampleFractal with the Perlin kernel
SamplePerlin(p, x, y, fp) ==
    LET acc == PerlinFractal(p, x, y, fp, 0, FractalStart(fp.frequency))
    IN  FDiv(acc.sum, acc.maxAmp)

RECURSIVE SimplexFractal(_, _, _, _, _, _)
SimplexFractal(perm, x, y, fp, o, acc) ==
    IF o >= fp.octaves THEN acc
    ELSE LET nx == FMul(FDiv(FAdd(x, fp.base), fp.scale), acc.f)
             ny == FMul(FDiv(FAdd(y, fp.base), fp.scale), acc.f)
         IN  SimplexFractal(perm, x, y, fp, o + 1,
                            FractalAdvance(acc, SimplexNoise_noise2D(perm, nx, ny), fp))

\* sampleFractal with the Simplex kernel
SampleSimplex(perm, x, y, fp) ==
    LET acc == SimplexFractal(perm, x, y, fp, 0, FractalStart(FOne))
    IN  FAdd(FMul(FDiv(acc.sum, acc.maxAmp), Lit(1, 2)), Lit(1, 2))

\* generateChunk: local cell (lx, ly) is the sample at world coordinate
\* (chunkX*chunkSize + lx, chunkY*chunkSize + ly)
GeneratePerlinChunk(p, chunkX, chunkY, chunkSize, fp) ==
    [ly \in 0 .. chunkSize - 1 |-> [lx \in 0 .. chunkSize - 1 |->
        SamplePerlin(p, FromInt(chunkX * chunkSize + lx),
                        FromInt(chunkY * chunkSize + ly), fp)]]

\* ------------------------------------------------------------------------
\* generate_simplex_map
\* ------------------------------------------------------------------------

SimplexValidate(c) ==
    IF c.width <= 0 THEN Throw("width", c.width)
    ELSE IF c.height <= 0 THEN Throw("height", c.height)
    ELSE IF FLe(c.scale, FZero) THEN Throw("scale", c.scale)
    ELSE IF c.octaves < 1 THEN Throw("octaves", c.octaves)
    ELSE IF FLt(c.persistence, FZero) \/ FGt(c.persistence, FOne)
         THEN Throw("persistence", c.persistence)
    ELSE IF FLe(c.lacunarity, FZero) THEN Throw("lacunarity", c.lacunarity)
    ELSE NoErr

\* entry: the argument checks (the function has no frequency argument; the
\* loop starts at frequency 1)
SimplexCall ==
    /\ pc = "idle"
    /\ \E w \in DimVals, h \in DimVals, sc \in ScaleVals, oc \in OctaveVals,
          pe \in PersistenceVals, la \in LacunarityVals, ba \in BaseVals,
          sd \in SeedVals :
          LET c == [kind |-> "simplex", width |-> w, height |-> h,
                    scale |-> sc, octaves |-> oc, frequency |-> FOne,
                    persistence |-> pe, lacunarity |-> la, base |-> ba,
                    seed |-> sd]
          IN  /\ call' = c
              /\ err' = SimplexValidate(c)
              /\ pc' = IF SimplexValidate(c) = NoErr THEN "construct"
                       ELSE "thrown"
    /\ UNCHANGED <<gen, entropy, noise, oct, amplitude, maxAmplitude, freq>>
    /\ UNCHANGED <<genVars, postVars, poolVars>>

\* SimplexNoise noiseGen(seed)
SimplexConstruct ==
    /\ pc = "construct"
    /\ call.kind = "simplex"
    /\ IF call.seed >= 0
       THEN /\ gen' = SimplexTable(call.seed)
            /\ UNCHANGED entropy
       ELSE /\ \E rd \in EntropyVals : gen' = SimplexTable(rd)
            /\ entropy' = entropy + 1
    /\ pc' = "allocate"
    /\ UNCHANGED <<call, err, noise, oct, amplitude, maxAmplitude, freq>>
    /\ UNCHANGED <<genVars, postVars, poolVars>>

SimplexAllocate ==
    /\ pc = "allocate"
    /\ call.kind = "simplex"
    /\ noise' = ZeroGrid(call.width, call.height)
    /\ amplitude' = FOne
    /\ maxAmplitude' = FZero
    /\ freq' = FOne
    /\ oct' = 0
    /\ pc' = "octaves"
    /\ UNCHANGED <<call, err, gen, entropy>>
    /\ UNCHANGED <<genVars, postVars, poolVars>>

SimplexAccumulate(grid, perm, c, f, amp) ==
    [y \in 0 .. c.height - 1 |-> [x \in 0 .. c.width - 1 |->
        LET nx == SampleCoord(x, c.base, c.scale, f)
            ny == SampleCoord(y, c.base, c.scale, f)
        IN  FAdd(grid[y][x], FMul(SimplexNoise_noise2D(perm, nx, ny), amp))]]

SimplexOctave ==
    /\ pc = "octaves"
    /\ call.kind = "simplex"
    /\ oct < call.octaves
    /\ noise' = SimplexAccumulate(noise, gen, call, freq, amplitude)
    /\ maxAmplitude' = FAdd(maxAmplitude, amplitude)
    /\ amplitude' = FMul(amplitude, call.persistence)
    /\ freq' = FMul(freq, call.lacunarity)
    /\ oct' = oct + 1
    /\ UNCHANGED <<pc, call, err, gen, entropy>>
    /\ UNCHANGED <<genVars, postVars, poolVars>>

\* noise[y][x] = (noise[y][x] / maxAmp) * 0.5f + 0.5f
SimplexNormalize(grid, c, maxAmp) ==
    [y \in 0 .. c.height - 1 |-> [x \in 0 .. c.width - 1 |->
        FAdd(FMul(FDiv(grid[y][x], maxAmp), Lit(1, 2)), Lit(1, 2))]]

SimplexReturn ==
    /\ pc = "octaves"
    /\ call.kind = "simplex"
    /\ oct >= call.octaves
    /\ noise' = SimplexNormalize(noise, call, maxAmplitude)
    /\ pc' = "returned"
    /\ UNCHANGED <<call, err, gen, entropy, oct, amplitude, maxAmplitude, freq>>
    /\ UNCHANGED <<genVars, postVars, poolVars>>

\* The caller is done with the result or the exception; the locals of the
\* call are gone.
Finish ==
    /\ pc \in {"returned", "thrown"}
    /\ pc' = "idle"
    /\ call' = NoCall
    /\ err' = NoErr
    /\ gen' = <<>>
    /\ entropy' = 0
    /\ noise' = <<>>
    /\ oct' = 0
    /\ amplitude' = FZero
    /\ maxAmplitude' = FZero
    /\ freq' = FZero
    /\ UNCHANGED <<genVars, postVars, poolVars>>

Next ==
    \/ PerlinCall
    \/ PerlinConstruct
    \/ PerlinAllocate
    \/ PerlinOctave
    \/ PerlinReturn
    \/ SimplexCall
    \/ SimplexConstruct
    \/ SimplexAllocate
    \/ SimplexOctave
    \/ SimplexReturn
    \/ Finish

Spec == Init /\ [][Next]_vars

\* ------------------------------------------------------------------------
\* Generator objects: PerlinNoise and SimplexNoise instances, constructed
\* independently of each other, queried through noise / noise2D, destroyed.
\* ------------------------------------------------------------------------

\* coordinates at which two generator objects are compared
ProbeXs == {Lit(-5, 4), Lit(5, 2)}
ProbeYs == {Lit(-1, 3), Lit(9, 4)}

\* coordinates around the places where the lattice index wraps
WideXs == {Lit(-1000, 3), Lit(-513, 2), FromInt(-256), Lit(-5, 4),
           FromInt(-1), Lit(-1, 3), FZero, Lit(1, 3), Lit(511, 2),
           FromInt(256), Lit(1000, 3)}
WideYs == {Lit(-1000, 3), Lit(-1, 2), Lit(513, 2)}

\* PerlinNoise::PerlinNoise(seed) taking `seed > 0` for `seed >= 0`
NewPerlinNoiseSeedPositive(k) ==
    /\ inst[k] = NoInst
    /\ \E seed \in SeedVals :
          IF seed > 0
          THEN inst' = [inst EXCEPT ![k] = [kind |-> "perlin", seed |-> seed,
                                            p |-> PerlinTable(seed)]]
          ELSE \E rd \in EntropyVals :
                  inst' = [inst EXCEPT ![k] = [kind |-> "perlin",
                                               seed |-> seed,
                                               p |-> PerlinTable(rd)]]
    /\ UNCHANGED <<last, mapVars, postVars, poolVars>>

\* PerlinNoise::PerlinNoise(seed)
NewPerlinNoise(k) ==
    /\ inst[k] = NoInst
    /\ \E seed \in SeedVals :
          IF seed >= 0
          THEN inst' = [inst EXCEPT ![k] = [kind |-> "perlin", seed |-> seed,
                                            p |-> PerlinTable(seed)]]
          ELSE \E rd \in EntropyVals :
                  inst' = [inst EXCEPT ![k] = [kind |-> "perlin",
                                               seed |-> seed,
                                               p |-> PerlinTable(rd)]]
    /\ UNCHANGED <<last, mapVars, postVars, poolVars>>

\* SimplexNoise::SimplexNoise(seed)
NewSimplexNoise(k) ==
    /\ inst[k] = NoInst
    /\ \E seed \in SeedVals :
          IF seed >= 0
          THEN inst' = [inst EXCEPT ![k] = [kind |-> "simplex", seed |-> seed,
                                            p |-> SimplexTable(seed)]]
          ELSE \E rd \in EntropyVals :
                  inst' = [inst EXCEPT ![k] = [kind |-> "simplex",
                                               seed |-> seed,
                                               p |-> SimplexTable(rd)]]
    /\ UNCHANGED <<last, mapVars, postVars, poolVars>>

\* PerlinNoise::noise(x, y) const on object k; X and Y are its lattice
\* indices
Noise(k, xs, ys) ==
    /\ inst[k].kind = "perlin"
    /\ \E x \in xs, y \in ys :
          last' = [last EXCEPT ![k] =
                      [kind |-> "perlin", x |-> x, y |-> y,
                       X |-> LatticeIndex(x), Y |-> LatticeIndex(y),
                       value |-> PerlinNoise_noise(inst[k].p, x, y)]]
    /\ UNCHANGED <<inst, mapVars, postVars, poolVars>>

\* SimplexNoise::noise2D(xin, yin) const on object k; X and Y are ii and jj
Noise2D(k, xs, ys) ==
    /\ inst[k].kind = "simplex"
    /\ \E x \in xs, y \in ys :
          last' = [last EXCEPT ![k] =
                      [kind |-> "simplex", x |-> x, y |-> y,
                       X |-> BitAnd(SimplexCell(x, y).i, 255),
                       Y |-> BitAnd(SimplexCell(x, y).j, 255),
                       value |-> SimplexNoise_noise2D(inst[k].p, x, y)]]
    /\ UNCHANGED <<inst, mapVars, postVars, poolVars>>

\* the object goes out of scope
Destroy(k) ==
    /\ inst[k] # NoInst
    /\ inst' = [inst EXCEPT ![k] = NoInst]
    /\ last' = [last EXCEPT ![k] = NoSample]
    /\ UNCHANGED <<mapVars, postVars, poolVars>>

\* two generator objects side by side
NextGen ==
    \E k \in InstIds :
        \/ NewPerlinNoise(k)
        \/ NewSimplexNoise(k)
        \/ Noise(k, ProbeXs, ProbeYs)
        \/ Noise2D(k, ProbeXs, ProbeYs)
        \/ Destroy(k)

SpecGen == Init /\ [][NextGen]_vars

\* one generator object queried over the wide coordinates
NextIndex ==
    \/ NewPerlinNoise(1)
    \/ NewSimplexNoise(1)
    \/ Noise(1, WideXs, WideYs)
    \/ Noise2D(1, WideXs, WideYs)
    \/ Destroy(1)

SpecIndex == Init /\ [][NextIndex]_vars

\* coordinates in lattice cells that lie 256 and 512 cells apart, and
\* some that do not
PeriodXs == {Lit(-1027, 4), Lit(-3, 4), Lit(1021, 4), FromInt(-256), FZero,
             FromInt(256), Lit(5, 4)}
PeriodYs == {Lit(-1027, 4), Lit(-3, 4), Lit(1021, 4), Lit(1, 3), Lit(769, 3)}

\* one Perlin object queried over several periods of the lattice
NextPeriod ==
    \/ NewPerlinNoise(1)
    \/ Noise(1, PeriodXs, PeriodYs)
    \/ Destroy(1)

SpecPeriod == Init /\ [][NextPeriod]_vars

\* ------------------------------------------------------------------------
\* Post-processing utilities.  A grid is a sequence of rows, each a sequence
\* of cells; cell [y][x] of the C++ vector is map[y + 1][x + 1].
\* ------------------------------------------------------------------------

\* largest number of cells of a grid handed to a utility
MaxCells == 4

\* height and width of the grids: the zero-size ones (no rows, or rows
\* without cells) and those of at most MaxCells cells
Shapes ==
    {s \in (0 .. MaxCells) \X (0 .. MaxCells) :
        /\ s[1] * s[2] <= MaxCells
        /\ s[1] = 0 => s[2] = 0}

\* cell values: two that differ by less than 0.0001 among them
PostVals == {FNeg(FOne), Lit(1, 4), FAdd(Lit(1, 4), Lit(1, 65536)), FOne}

FloatGrids == UNION {[1 .. s[1] -> [1 .. s[2] -> PostVals]] : s \in Shapes}

BoolGrids == UNION {[1 .. s[1] -> [1 .. s[2] -> BOOLEAN]] : s \in Shapes}

\* the (minVal, maxVal) arguments of normalize_range
RangeVals == {<<FNeg(FOne), FOne>>, <<FromInt(2), FromInt(5)>>,
              <<FOne, FZero>>, <<Lit(1, 2), Lit(1, 2)>>}

RadiusVals == {0, 1}

IterationVals == {0, 1, 2}
BirthLimitVals == {4, 5}
DeathLimitVals == {3}

\* how a call ends
Returned(v) == [status |-> "returned", value |-> v]
Crashed == [status |-> "crashed"]

\* the cells of a grid in row-major order
RECURSIVE FlattenFrom(_, _)
FlattenFrom(map, y) ==
    IF y > Len(map) THEN <<>> ELSE map[y] \o FlattenFrom(map, y + 1)

Flatten(map) == FlattenFrom(map, 1)

\* minVal = std::min(minVal, val) over cells i.. of s
RECURSIVE FoldMin(_, _, _)
FoldMin(s, i, acc) ==
    IF i > Len(s) THEN acc ELSE FoldMin(s, i + 1, FMin(acc, s[i]))

RECURSIVE FoldMax(_, _, _)
FoldMax(s, i, acc) ==
    IF i > Len(s) THEN acc ELSE FoldMax(s, i + 1, FMax(acc, s[i]))

\* normalize dividing by maxVal, not by maxVal - minVal
normalizeByMax(map) ==
    LET cells  == Flatten(map)
        minVal == FoldMin(cells, 1, map[1][1])
        maxVal == FoldMax(cells, 1, map[1][1])
        range  == FSub(maxVal, minVal)
    IN  IF FLt(range, Lit(1, 10000)) THEN map
        ELSE [y \in 1 .. Len(map) |-> [x \in 1 .. Len(map[1]) |->
                 FDiv(FSub(map[y][x], minVal), maxVal)]]

\* normalize on a grid with a cell [0][0]
normalize(map) ==
    LET cells  == Flatten(map)
        minVal == FoldMin(cells, 1, map[1][1])
        maxVal == FoldMax(cells, 1, map[1][1])
        range  == FSub(maxVal, minVal)
    IN  IF FLt(range, Lit(1, 10000)) THEN map
        ELSE [y \in 1 .. Len(map) |-> [x \in 1 .. Len(map[1]) |->
                 FDiv(FSub(map[y][x], minVal), range)]]

\* remap on a grid with a row 0
remap(map, oldMin, oldMax, newMin, newMax) ==
    LET oldRange == FSub(oldMax, oldMin)
        newRange == FSub(newMax, newMin)
    IN  [y \in 1 .. Len(map) |-> [x \in 1 .. Len(map[1]) |->
            FAdd(newMin,
                 FMul(FDiv(FSub(map[y][x], oldMin), oldRange), newRange))]]

normalize_range(map, minVal, maxVal) ==
    remap(normalize(map), FZero, FOne, minVal, maxVal)

\* the largest q in lo..hi with q*q <= n
RECURSIVE ISqrtBetween(_, _, _)
ISqrtBetween(n, lo, hi) ==
    IF lo = hi THEN lo
    ELSE LET mid == (lo + hi + 1) \div 2
         IN  IF mid * mid <= n THEN ISqrtBetween(n, mid, hi)
             ELSE ISqrtBetween(n, lo, mid - 1)

\* std::sqrt(a) for a >= 0, correctly rounded: the root of the significand
\* scaled to an even exponent, with a half bit and a sticky bit for Norm
FSqrt(a) ==
    IF a.m = 0 THEN FZero
    ELSE LET odd == (a.e % 2) # 0
             M   == IF odd THEN a.m * Pow2(MantBits)
                    ELSE a.m * Pow2(MantBits + 1)
             e2  == IF odd THEN a.e - MantBits ELSE a.e - MantBits - 1
             q   == ISqrtBetween(M, 0, 46340)
             r   == M - q * q
         IN  Norm(4 * q + (IF r > q THEN 2 ELSE 0) + (IF r # 0 THEN 1 ELSE 0),
                  (e2 \div 2) - 2)

RECURSIVE FoldSum(_, _, _)
FoldSum(s, i, acc) ==
    IF i > Len(s) THEN acc ELSE FoldSum(s, i + 1, FAdd(acc, s[i]))

\* variance += (val - mean) * (val - mean)
RECURSIVE FoldVariance(_, _, _, _)
FoldVariance(s, i, mean, acc) ==
    IF i > Len(s) THEN acc
    ELSE LET diff == FSub(s[i], mean)
         IN  FoldVariance(s, i + 1, mean, FAdd(acc, FMul(diff, diff)))

calculate_stats(map) ==
    IF Len(map) = 0 \/ Len(map[1]) = 0
    THEN [min |-> FZero, max |-> FZero, mean |-> FZero, stddev |-> FZero]
    ELSE LET cells == Flatten(map)
             count == Len(cells)
             mean  == FDiv(FoldSum(cells, 1, FZero), FromInt(count))
         IN  [min    |-> FoldMin(cells, 1, map[1][1]),
              max    |-> FoldMax(cells, 1, map[1][1]),
              mean   |-> mean,
              stddev |-> FSqrt(FDiv(FoldVariance(cells, 1, mean, FZero),
                                    FromInt(count)))]

\* clamp on int arguments
clamp(value, min, max) ==
    LET low == IF max < value THEN max ELSE value
    IN  IF min < low THEN low ELSE min

\* sum += map[ny][nx] for the k-th and later offsets (dy, dx) of the
\* window around (x, y), dy outer, dx inner
RECURSIVE BoxSum(_, _, _, _, _, _)
BoxSum(map, x, y, radius, k, acc) ==
    LET side == 2 * radius + 1
    IN  IF k >= side * side THEN acc
        ELSE LET dy == (k \div side) - radius
                 dx == (k % side) - radius
                 ny == clamp(y + dy, 0, Len(map) - 1)
                 nx == clamp(x + dx, 0, Len(map[1]) - 1)
             IN  BoxSum(map, x, y, radius, k + 1,
                        FAdd(acc, map[ny + 1][nx + 1]))

\* box_blur on a grid with a row 0
box_blur(map, radius) ==
    LET kernelSize == (2 * radius + 1) * (2 * radius + 1)
    IN  [y \in 1 .. Len(map) |-> [x \in 1 .. Len(map[1]) |->
            FDiv(BoxSum(map, x - 1, y - 1, radius, 0, FZero),
                 FromInt(kernelSize))]]

\* neighbours of (x, y) within `range` that are solid or outside the grid
count_solid_neighbors(cave, x, y, range) ==
    Cardinality({d \in (-range .. range) \X (-range .. range) :
        /\ d # <<0, 0>>
        /\ LET nx == x + d[1]
               ny == y + d[2]
           IN  \/ nx < 0
               \/ nx >= Len(cave[1])
               \/ ny < 0
               \/ ny >= Len(cave)
               \/ cave[ny + 1][nx + 1]})

\* the cells from the k-th on, in row-major order, updated one after the
\* other in the grid they are read from
RECURSIVE UpdateInPlaceFrom(_, _, _, _)
UpdateInPlaceFrom(cave, k, birthLimit, deathLimit) ==
    IF k >= Len(cave) * Len(cave[1]) THEN cave
    ELSE LET y == (k \div Len(cave[1])) + 1
             x == (k % Len(cave[1])) + 1
             neighbors == count_solid_neighbors(cave, x - 1, y - 1, 1)
             cell == IF cave[y][x] THEN neighbors >= deathLimit
                     ELSE neighbors >= birthLimit
         IN  UpdateInPlaceFrom([cave EXCEPT ![y][x] = cell], k + 1,
                               birthLimit, deathLimit)

\* one iteration that writes to cave itself instead of newCave
CaveStepInPlace(cave, birthLimit, deathLimit) ==
    UpdateInPlaceFrom(cave, 0, birthLimit, deathLimit)

\* one iteration: newCave computed from cave
CaveStep(cave, birthLimit, deathLimit) ==
    [y \in 1 .. Len(cave) |-> [x \in 1 .. Len(cave[1]) |->
        LET neighbors == count_solid_neighbors(cave, x - 1, y - 1, 1)
        IN  IF cave[y][x] THEN neighbors >= deathLimit
            ELSE neighbors >= birthLimit]]

\* smooth_cave_cellular_automata on a grid with a row 0
RECURSIVE smooth_cave_cellular_automata(_, _, _, _)
smooth_cave_cellular_automata(cave, iterations, birthLimit, deathLimit) ==
    IF iterations <= 0 THEN cave
    ELSE smooth_cave_cellular_automata(CaveStep(cave, birthLimit, deathLimit),
                                       iterations - 1, birthLimit, deathLimit)

\* normalize(map).  Without a row 0, map[0].size() is a read through the
\* end of an empty vector, and without a cell [0][0] so is map[0][0]:
\* the call crashes, or goes on with an arbitrary value as minVal and
\* maxVal, finds no cell to visit and returns the map.
CallNormalize ==
    /\ postCall = NoPost
    /\ \E map \in FloatGrids :
          /\ postCall' = [fn |-> "normalize", map |-> map]
          /\ IF Len(map) = 0 \/ Len(map[1]) = 0
             THEN postOut' \in {Crashed, Returned(map)}
             ELSE postOut' = Returned(normalize(map))
    /\ UNCHANGED <<mapVars, genVars, poolVars>>

\* normalize_range(map, minVal, maxVal): normalize, then remap
CallNormalizeRange ==
    /\ postCall = NoPost
    /\ \E map \in FloatGrids, r \in RangeVals :
          /\ postCall' = [fn |-> "normalize_range", map |-> map,
                          lo |-> r[1], hi |-> r[2]]
          /\ IF Len(map) = 0 \/ Len(map[1]) = 0
             THEN postOut' \in {Crashed, Returned(map)}
             ELSE postOut' = Returned(normalize_range(map, r[1], r[2]))
    /\ UNCHANGED <<mapVars, genVars, poolVars>>

\* calculate_stats(map), which tests for the empty grid itself
CallCalculateStats ==
    /\ postCall = NoPost
    /\ \E map \in FloatGrids :
          /\ postCall' = [fn |-> "calculate_stats", map |-> map]
          /\ postOut' = Returned(calculate_stats(map))
    /\ UNCHANGED <<mapVars, genVars, poolVars>>

\* box_blur(map, radius).  Without a row 0 the width is read through the end
\* of an empty vector: the call crashes, or goes on with an arbitrary width
\* and height 0 and returns a grid without rows.
CallBoxBlur ==
    /\ postCall = NoPost
    /\ \E map \in FloatGrids, radius \in RadiusVals :
          /\ postCall' = [fn |-> "box_blur", map |-> map, radius |-> radius]
          /\ IF Len(map) = 0
             THEN postOut' \in {Crashed, Returned(<<>>)}
             ELSE postOut' = Returned(box_blur(map, radius))
    /\ UNCHANGED <<mapVars, genVars, poolVars>>

\* smooth_cave_cellular_automata(cave, iterations, birthLimit, deathLimit),
\* which works in place.  Without a row 0 the width is read through the end
\* of an empty vector: the call crashes, or leaves the grid as it is.
CallSmoothCave ==
    /\ postCall = NoPost
    /\ \E cave \in BoolGrids, it \in IterationVals, bl \in BirthLimitVals,
          dl \in DeathLimitVals :
          /\ postCall' = [fn |-> "smooth_cave_cellular_automata",
                          map |-> cave, iterations |-> it,
                          birthLimit |-> bl, deathLimit |-> dl]
          /\ IF Len(cave) = 0
             THEN postOut' \in {Crashed, Returned(cave)}
             ELSE postOut' =
                      Returned(smooth_cave_cellular_automata(cave, it, bl, dl))
    /\ UNCHANGED <<mapVars, genVars, poolVars>>

\* the caller is done with the result
PostFinish ==
    /\ postCall # NoPost
    /\ postCall' = NoPost
    /\ postOut' = NoPost
    /\ UNCHANGED <<mapVars, genVars, poolVars>>

NextPost ==
    \/ CallNormalize
    \/ CallNormalizeRange
    \/ CallCalculateStats
    \/ CallBoxBlur
    \/ CallSmoothCave
    \/ PostFinish

SpecPost == Init /\ [][NextPost]_vars

\* ------------------------------------------------------------------------
\* Caves: sample_cave, generate_cave_chunk, find_regions,
\* remove_small_regions.  A call and its result are held in postCall and
\* postOut.
\* ------------------------------------------------------------------------

\* the seeds >= 0 of SeedVals, and the tables PerlinNoise(seed) builds for
\* them, computed once
CaveSeedVals == {0, 1}
SeededTables == <<PerlinTable(0), PerlinTable(1)>>

\* sample_perlin(x, y, scale, octaves, frequency, persistence, lacunarity,
\* base, seed) for a seed >= 0
sample_perlin(x, y, fp, seed) == SamplePerlin(SeededTables[seed + 1], x, y, fp)

CaveScaleVals == {FromInt(3)}
CaveOctaveVals == {1, 3}
ThresholdVals == {Lit(2, 5), Lit(1, 2), Lit(3, 5)}
ChunkIndexVals == {-1, 0, 1}

CaveParamVals ==
    [scale : CaveScaleVals, octaves : CaveOctaveVals,
     persistence : {Lit(1, 2)}, lacunarity : {FromInt(2)},
     seed : CaveSeedVals, threshold : ThresholdVals,
     invertThreshold : BOOLEAN]

\* the arguments sample_cave_density hands to sample_perlin
CaveFractal(params) ==
    [scale |-> params.scale, octaves |-> params.octaves, frequency |-> FOne,
     persistence |-> params.persistence, lacunarity |-> params.lacunarity,
     base |-> FZero]

sample_cave_density(x, y, params) ==
    sample_perlin(x, y, CaveFractal(params), params.seed)

sample_cave(x, y, params) ==
    LET density == sample_cave_density(x, y, params)
    IN  IF params.invertThreshold THEN FLt(density, params.threshold)
        ELSE FGt(density, params.threshold)

\* generate_cave_chunk followed by one cellular-automata pass
generate_cave_chunkSmoothed(chunkX, chunkY, chunkSize, params) ==
    LET worldOffsetX == FromInt(chunkX * chunkSize)
        worldOffsetY == FromInt(chunkY * chunkSize)
        chunk == [y \in 1 .. chunkSize |-> [x \in 1 .. chunkSize |->
                     sample_cave(FAdd(worldOffsetX, FromInt(x - 1)),
                                 FAdd(worldOffsetY, FromInt(y - 1)), params)]]
    IN  smooth_cave_cellular_automata(chunk, 1, 4, 3)

generate_cave_chunk(chunkX, chunkY, chunkSize, params) ==
    LET worldOffsetX == FromInt(chunkX * chunkSize)
        worldOffsetY == FromInt(chunkY * chunkSize)
    IN  [y \in 1 .. chunkSize |-> [x \in 1 .. chunkSize |->
            sample_cave(FAdd(worldOffsetX, FromInt(x - 1)),
                        FAdd(worldOffsetY, FromInt(y - 1)), params)]]

CallCaveChunk ==
    /\ postCall = NoPost
    /\ \E chunkX \in ChunkIndexVals, chunkY \in ChunkIndexVals,
          chunkSize \in 1 .. MaxChunk, params \in CaveParamVals :
          /\ postCall' = [fn |-> "generate_cave_chunk", chunkX |-> chunkX,
                          chunkY |-> chunkY, chunkSize |-> chunkSize,
                          params |-> params]
          /\ postOut' = Returned(generate_cave_chunk(chunkX, chunkY,
                                                     chunkSize, params))
    /\ UNCHANGED <<mapVars, genVars, poolVars>>

NextCave ==
    \/ CallCaveChunk
    \/ PostFinish

SpecCave == Init /\ [][NextCave]_vars

\* ------------------------------------------------------------------------
\* Terrain: sample_terrain, generate_terrain_profile, apply_slope_limit.
\* ------------------------------------------------------------------------

\* Longest height sequence and widest profile.
MaxLen == 3

HeightVals == {FNeg(FOne), FZero, Lit(1, 5), Lit(1, 2), Lit(9, 10), FromInt(3)}
HeightSeqs == UNION {[1 .. n -> HeightVals] : n \in 0 .. MaxLen}
MaxSlopeVals == {FZero, Lit(1, 10), Lit(1, 4), FOne}

Threw(what) == [status |-> "threw", what |-> what]

\* one iteration of either pass that moves the height by maxSlope instead
\* of placing it maxSlope from its neighbour
LimitStepFromHeight(neighbour, height, maxSlope) ==
    LET diff == FSub(height, neighbour)
    IN  IF FGt(diff, maxSlope) THEN FSub(height, maxSlope)
        ELSE IF FLt(diff, FNeg(maxSlope)) THEN FAdd(height, maxSlope)
        ELSE height

\* one iteration of either pass: the height next to `neighbour` after the
\* two tests on diff
LimitStep(neighbour, height, maxSlope) ==
    LET diff == FSub(height, neighbour)
    IN  IF FGt(diff, maxSlope) THEN FAdd(neighbour, maxSlope)
        ELSE IF FLt(diff, FNeg(maxSlope)) THEN FSub(neighbour, maxSlope)
        ELSE height

\* for (i = 1; i < size; ++i), with i one-based here
RECURSIVE ForwardPass(_, _, _)
ForwardPass(limited, i, maxSlope) ==
    IF i > Len(limited) THEN limited
    ELSE ForwardPass([limited EXCEPT
                         ![i] = LimitStep(limited[i - 1], limited[i], maxSlope)],
                     i + 1, maxSlope)

\* for (i = size - 2; i >= 0; --i), with i one-based here
RECURSIVE BackwardPass(_, _, _)
BackwardPass(limited, i, maxSlope) ==
    IF i < 1 THEN limited
    ELSE BackwardPass([limited EXCEPT
                          ![i] = LimitStep(limited[i + 1], limited[i], maxSlope)],
                      i - 1, maxSlope)

apply_slope_limit(heights, maxSlope) ==
    IF heights = <<>> THEN heights
    ELSE IF FLe(maxSlope, FZero) \/ FGe(maxSlope, FOne) THEN heights
    ELSE BackwardPass(ForwardPass(heights, 2, maxSlope),
                      Len(heights) - 1, maxSlope)

TerrainSeedVals == {0, 1}
TerrainOctaveVals == {1, 2}
AmplitudeVals == {Lit(3, 10), FOne}
HeightRangeVals ==
    {<<Lit(1, 5), Lit(4, 5)>>, <<Lit(9, 20), Lit(1, 2)>>,
     <<Lit(1, 2), Lit(1, 2)>>}

TerrainParamVals ==
    [scale : {FromInt(3)}, octaves : TerrainOctaveVals,
     persistence : {Lit(1, 2)}, lacunarity : {FromInt(2)},
     baseHeight : {Lit(1, 2)}, amplitude : AmplitudeVals,
     range : HeightRangeVals, maxSlope : MaxSlopeVals,
     enablePlateau : BOOLEAN, plateauThreshold : {Lit(11, 20)},
     plateauWidth : {Lit(1, 20)}, seed : TerrainSeedVals]

\* the arguments sample_terrain hands to sample_perlin
TerrainFractal(params) ==
    [scale |-> params.scale, octaves |-> params.octaves, frequency |-> FOne,
     persistence |-> params.persistence, lacunarity |-> params.lacunarity,
     base |-> FZero]

\* the height sample_terrain makes of the noise value `value`, before the
\* clamp
HeightOfNoise(value, params) ==
    LET height == FAdd(params.baseHeight,
                       FMul(FMul(FSub(value, Lit(1, 2)), params.amplitude),
                            FromInt(2)))
    IN  IF params.enablePlateau /\ FGt(height, params.plateauThreshold)
        THEN LET overshoot == FSub(height, params.plateauThreshold)
                 factor    == FMin(FDiv(overshoot, params.plateauWidth), FOne)
             IN  FAdd(params.plateauThreshold,
                      FMul(overshoot,
                           FSub(FOne, FMul(factor, Lit(4, 5)))))
        ELSE height

\* the height before the clamp (the noise value is bound through a
\* one-element set, which makes TLC evaluate it once)
TerrainHeight(x, params) ==
    CHOOSE height \in
        {HeightOfNoise(value, params) :
            value \in {sample_perlin(x, FZero, TerrainFractal(params),
                                     params.seed)}} : TRUE

\* std::clamp(v, lo, hi) for lo <= hi
std_clamp(v, lo, hi) == IF FLt(v, lo) THEN lo ELSE IF FLt(hi, v) THEN hi ELSE v

\* sample_terrain without its std::clamp
sample_terrainUnclamped(x, params) == TerrainHeight(x, params)

sample_terrain(x, params) ==
    std_clamp(TerrainHeight(x, params), params.range[1], params.range[2])

WidthVals == 0 .. MaxLen
StartXVals == {FZero, Lit(-5, 2)}
StepVals == {FZero, FOne, Lit(7, 4)}

\* the slope-limiting step at the end of generate_terrain_profile
LimitProfile(profile, params) ==
    IF FGt(params.maxSlope, FZero) /\ FLt(params.maxSlope, FOne)
    THEN Returned(apply_slope_limit(profile, params.maxSlope))
    ELSE Returned(profile)

\* (the sampled profile is bound through a one-element set, which makes
\* TLC evaluate it once)
generate_terrain_profile(width, startX, step, params) ==
    IF width <= 0 THEN Threw("width must be > 0")
    ELSE IF FLe(step, FZero) THEN Threw("step must be > 0")
    ELSE CHOOSE out \in
             {LimitProfile(profile, params) :
                 profile \in
                     {[i \in 1 .. width |->
                          sample_terrain(FAdd(startX,
                                              FMul(FromInt(i - 1), step)),
                                         params)]}} : TRUE

CallApplySlopeLimit ==
    /\ postCall = NoPost
    /\ \E heights \in HeightSeqs, maxSlope \in MaxSlopeVals :
          /\ postCall' = [fn |-> "apply_slope_limit", heights |-> heights,
                          maxSlope |-> maxSlope]
          /\ postOut' = Returned(apply_slope_limit(heights, maxSlope))
    /\ UNCHANGED <<mapVars, genVars, poolVars>>

CallSampleTerrain ==
    /\ postCall = NoPost
    /\ \E x \in StartXVals, params \in TerrainParamVals :
          /\ postCall' = [fn |-> "sample_terrain", x |-> x, params |-> params]
          /\ postOut' = Returned(sample_terrain(x, params))
    /\ UNCHANGED <<mapVars, genVars, poolVars>>

CallTerrainProfile ==
    /\ postCall = NoPost
    /\ \E width \in WidthVals, startX \in StartXVals, step \in StepVals,
          params \in TerrainParamVals :
          /\ postCall' = [fn |-> "generate_terrain_profile", width |-> width,
                          startX |-> startX, step |-> step, params |-> params]
          /\ postOut' = generate_terrain_profile(width, startX, step, params)
    /\ UNCHANGED <<mapVars, genVars, poolVars>>

NextTerrain ==
    \/ CallApplySlopeLimit
    \/ CallSampleTerrain
    \/ CallTerrainProfile
    \/ PostFinish

SpecTerrain == Init /\ [][NextTerrain]_vars

\* ------------------------------------------------------------------------
\* Caves: region analysis (find_regions, remove_small_regions).
\* ------------------------------------------------------------------------

\* Largest number of cells of a cave handed to the region functions.
MaxRegionCells == 9

RegionShapes ==
    {s \in (1 .. MaxRegionCells) \X (1 .. MaxRegionCells) :
        s[1] * s[2] <= MaxRegionCells}

\* non-empty rectangular caves, as rows of cells; TRUE is solid
CaveGrids == UNION {[1 .. s[1] -> [1 .. s[2] -> BOOLEAN]] : s \in RegionShapes}

MinSizeVals == {0, 2, 3}

\* dx[] without its step to the west
NeighbourDxNoWest == <<0, 1, 0, 0>>

\* const int dx[], dy[]
NeighbourDx == <<0, 1, 0, -1>>
NeighbourDy == <<-1, 0, 1, 0>>

\* for (i = 0; i < 4; i++) of the flood fill, from its i-th iteration (one-
\* based) on; yields the labels and the queue after the loop
RECURSIVE VisitNeighbours(_, _, _, _, _, _, _, _)
VisitNeighbours(cave, findSolid, regions, queue, cx, cy, i, regionId) ==
    IF i > 4 THEN [regions |-> regions, queue |-> queue]
    ELSE LET nx == cx + NeighbourDx[i]
             ny == cy + NeighbourDy[i]
             height == Len(cave)
             width  == Len(cave[1])
         IN  IF /\ nx >= 0 /\ nx < width /\ ny >= 0 /\ ny < height
                /\ regions[ny + 1][nx + 1] = -1
                /\ cave[ny + 1][nx + 1] = findSolid
             THEN VisitNeighbours(cave, findSolid,
                      [regions EXCEPT ![ny + 1][nx + 1] = regionId],
                      Append(queue, <<nx, ny>>), cx, cy, i + 1, regionId)
             ELSE VisitNeighbours(cave, findSolid, regions, queue,
                                  cx, cy, i + 1, regionId)

\* while (!queue.empty())
RECURSIVE FloodFill(_, _, _, _, _)
FloodFill(cave, findSolid, regions, queue, regionId) ==
    IF queue = <<>> THEN regions
    ELSE LET front == Head(queue)
             after == VisitNeighbours(cave, findSolid, regions, Tail(queue),
                                      front[1], front[2], 1, regionId)
         IN  FloodFill(cave, findSolid, after.regions, after.queue, regionId)

\* the two scan loops from cell k on (row-major, zero-based)
RECURSIVE ScanRegions(_, _, _, _, _)
ScanRegions(cave, findSolid, regions, regionId, k) ==
    LET height == Len(cave)
        width  == Len(cave[1])
        x == k % width
        y == k \div width
    IN  IF k >= height * width THEN regions
        ELSE IF regions[y + 1][x + 1] # -1 \/ cave[y + 1][x + 1] # findSolid
        THEN ScanRegions(cave, findSolid, regions, regionId, k + 1)
        ELSE ScanRegions(cave, findSolid,
                 FloodFill(cave, findSolid,
                           [regions EXCEPT ![y + 1][x + 1] = regionId],
                           <<<<x, y>>>>, regionId),
                 regionId + 1, k + 1)

find_regions(cave, findSolid) ==
    ScanRegions(cave, findSolid,
                [y \in 1 .. Len(cave) |-> [x \in 1 .. Len(cave[1]) |-> -1]],
                0, 0)

\* regionSizes[regionId] = 1 in place of regionSizes[regionId]++
RegionSizeAssigned(regions, regionId) ==
    IF \E c \in (1 .. Len(regions)) \X (1 .. Len(regions[1])) :
          regions[c[1]][c[2]] = regionId
    THEN 1 ELSE 0

\* regionSizes[regionId] (0 for an id that labels no cell)
RegionSize(regions, regionId) ==
    Cardinality({c \in (1 .. Len(regions)) \X (1 .. Len(regions[1])) :
                    regions[c[1]][c[2]] = regionId})

\* the loop over regionSizes, ids ascending, from regionId on
RECURSIVE LargestRegion(_, _, _, _)
LargestRegion(regions, regionId, largestRegion, largestSize) ==
    LET size == RegionSize(regions, regionId)
    IN  IF size = 0 THEN largestRegion
        ELSE IF size > largestSize
        THEN LargestRegion(regions, regionId + 1, regionId, size)
        ELSE LargestRegion(regions, regionId + 1, largestRegion, largestSize)

\* remove_small_regions looking for regions of the other kind
remove_small_regionsOtherKind(cave, minSize, removeAir) ==
    LET regions == find_regions(cave, removeAir)
        largestRegion == LargestRegion(regions, 0, -1, 0)
    IN  [y \in 1 .. Len(cave) |-> [x \in 1 .. Len(cave[1]) |->
            LET regionId == regions[y][x]
            IN  IF /\ regionId # -1
                   /\ regionId # largestRegion
                   /\ RegionSize(regions, regionId) < minSize
                THEN removeAir
                ELSE cave[y][x]]]

\* the cave after remove_small_regions
remove_small_regions(cave, minSize, removeAir) ==
    LET regions == find_regions(cave, ~removeAir)
        largestRegion == LargestRegion(regions, 0, -1, 0)
    IN  [y \in 1 .. Len(cave) |-> [x \in 1 .. Len(cave[1]) |->
            LET regionId == regions[y][x]
            IN  IF /\ regionId # -1
                   /\ regionId # largestRegion
                   /\ RegionSize(regions, regionId) < minSize
                THEN removeAir
                ELSE cave[y][x]]]

CallFindRegions ==
    /\ postCall = NoPost
    /\ \E cave \in CaveGrids, findSolid \in BOOLEAN :
          /\ postCall' = [fn |-> "find_regions", cave |-> cave,
                          findSolid |-> findSolid]
          /\ postOut' = Returned(find_regions(cave, findSolid))
    /\ UNCHANGED <<mapVars, genVars, poolVars>>

CallRemoveSmallRegions ==
    /\ postCall = NoPost
    /\ \E cave \in CaveGrids, minSize \in MinSizeVals, removeAir \in BOOLEAN :
          /\ postCall' = [fn |-> "remove_small_regions", cave |-> cave,
                          minSize |-> minSize, removeAir |-> removeAir]
          /\ postOut' = Returned(remove_small_regions(cave, minSize, removeAir))
    /\ UNCHANGED <<mapVars, genVars, poolVars>>

NextRegion ==
    \/ CallFindRegions
    \/ CallRemoveSmallRegions
    \/ PostFinish

SpecRegion == Init /\ [][NextRegion]_vars

\* ------------------------------------------------------------------------
\* Tilemaps: get_tile_for_height, noise_to_tilemap, calculate_bitmask,
\* apply_autotiling_16, apply_autotiling_48.
\* ------------------------------------------------------------------------

\* Largest number of cells of a tilemap handed to the auto-tiling functions.
MaxTileCells == 9

TileThresholdVals == {FZero, Lit(3, 10), Lit(9, 20), FOne}
TileIdVals == {1, 2}
TileHeightVals ==
    {Lit(-1, 2), FZero, Lit(3, 10), Lit(2, 5), Lit(9, 20), Lit(7, 10), FOne,
     FromInt(2)}

\* std::map<float, int>: a function from its keys to its values
HeightToTileVals == UNION {[S -> TileIdVals] : S \in SUBSET TileThresholdVals}

\* the first key in the iteration order of the std::map
FirstKey(keys) == CHOOSE k \in keys : \A j \in keys : FLe(k, j)

\* the test of the loop as height > threshold
ReachesThresholdStrictly(height, threshold) == FGt(height, threshold)

\* if (height >= threshold)
ReachesThreshold(height, threshold) == FGe(height, threshold)

\* the range-for over heightToTile, `keys` being the entries not yet visited
RECURSIVE TileLoop(_, _, _, _)
TileLoop(height, heightToTile, keys, tileId) ==
    IF keys = {} THEN tileId
    ELSE LET threshold == FirstKey(keys)
         IN  IF ReachesThreshold(height, threshold)
             THEN TileLoop(height, heightToTile, keys \ {threshold},
                           heightToTile[threshold])
             ELSE tileId

get_tile_for_height(height, heightToTile) ==
    TileLoop(height, heightToTile, DOMAIN heightToTile, 0)

noise_to_tilemap(noiseMap, heightToTile) ==
    [y \in 1 .. Len(noiseMap) |-> [x \in 1 .. Len(noiseMap[1]) |->
        get_tile_for_height(noiseMap[y][x], heightToTile)]]

NoiseHeightVals == {Lit(-1, 2), Lit(3, 10), Lit(7, 10)}
NoiseMaps ==
    UNION {[1 .. s[1] -> [1 .. s[2] -> NoiseHeightVals]] :
              s \in {t \in Shapes : t[1] > 0 /\ t[2] > 0}}

\* heightToTile of the configurations handed to noise_to_tilemap: no entry,
\* two entries, and the first four entries of the default TilemapConfig
ConfigMaps ==
    {<<>>,
     [k \in {FZero, Lit(3, 10)} |-> IF k = FZero THEN 1 ELSE 2],
     [k \in {FZero, Lit(3, 10), Lit(9, 20), Lit(11, 20)} |->
         IF k = FZero THEN 0 ELSE IF k = Lit(3, 10) THEN 1
         ELSE IF k = Lit(9, 20) THEN 2 ELSE 3]}

TileShapes ==
    {s \in (1 .. MaxTileCells) \X (1 .. MaxTileCells) :
        s[1] * s[2] <= MaxTileCells}

TileVals == {0, 1}
Tilemaps == UNION {[1 .. s[1] -> [1 .. s[2] -> TileVals]] : s \in TileShapes}
TileCoordVals == {0, 1}

\* bitmask |= bit
BitOr(a, b) == a + b - BitAndNat(a, b)

\* the lambda isSolid of calculate_bitmask
isSolid(tilemap, solidTileId, nx, ny) ==
    IF nx < 0 \/ nx >= Len(tilemap[1]) \/ ny < 0 \/ ny >= Len(tilemap)
    THEN FALSE
    ELSE tilemap[ny + 1][nx + 1] = solidTileId

\* bitmask |= bit when (nx, ny) is solid
OrIfSolid(bitmask, bit, tilemap, solidTileId, nx, ny) ==
    IF isSolid(tilemap, solidTileId, nx, ny) THEN BitOr(bitmask, bit)
    ELSE bitmask

\* calculate_bitmask with the bits of East and West exchanged
calculate_bitmaskMirrored(tilemap, x, y, solidTileId, include8Direction) ==
    LET n == OrIfSolid(0, 1, tilemap, solidTileId, x, y - 1)
        e == OrIfSolid(n, 8, tilemap, solidTileId, x + 1, y)
        s == OrIfSolid(e, 4, tilemap, solidTileId, x, y + 1)
        w == OrIfSolid(s, 2, tilemap, solidTileId, x - 1, y)
    IN  IF include8Direction
        THEN LET ne == OrIfSolid(w, 16, tilemap, solidTileId, x + 1, y - 1)
                 se == OrIfSolid(ne, 32, tilemap, solidTileId, x + 1, y + 1)
                 sw == OrIfSolid(se, 64, tilemap, solidTileId, x - 1, y + 1)
             IN  OrIfSolid(sw, 128, tilemap, solidTileId, x - 1, y - 1)
        ELSE w

calculate_bitmask(tilemap, x, y, solidTileId, include8Direction) ==
    LET n == OrIfSolid(0, 1, tilemap, solidTileId, x, y - 1)
        e == OrIfSolid(n, 2, tilemap, solidTileId, x + 1, y)
        s == OrIfSolid(e, 4, tilemap, solidTileId, x, y + 1)
        w == OrIfSolid(s, 8, tilemap, solidTileId, x - 1, y)
    IN  IF include8Direction
        THEN LET ne == OrIfSolid(w, 16, tilemap, solidTileId, x + 1, y - 1)
                 se == OrIfSolid(ne, 32, tilemap, solidTileId, x + 1, y + 1)
                 sw == OrIfSolid(se, 64, tilemap, solidTileId, x - 1, y + 1)
             IN  OrIfSolid(sw, 128, tilemap, solidTileId, x - 1, y - 1)
        ELSE w

\* the body shared by apply_autotiling_16 (include8Direction false) and
\* apply_autotiling_48 (true)
AutoTile(tilemap, solidTileId, include8Direction) ==
    [y \in 1 .. Len(tilemap) |-> [x \in 1 .. Len(tilemap[1]) |->
        IF tilemap[y][x] = solidTileId
        THEN calculate_bitmask(tilemap, x - 1, y - 1, solidTileId,
                               include8Direction)
        ELSE tilemap[y][x]]]

apply_autotiling_16(tilemap, solidTileId) == AutoTile(tilemap, solidTileId, FALSE)

apply_autotiling_48(tilemap, solidTileId) == AutoTile(tilemap, solidTileId, TRUE)

CallGetTileForHeight ==
    /\ postCall = NoPost
    /\ \E height \in TileHeightVals, heightToTile \in HeightToTileVals :
          /\ postCall' = [fn |-> "get_tile_for_height", height |-> height,
                          heightToTile |-> heightToTile]
          /\ postOut' = Returned(get_tile_for_height(height, heightToTile))
    /\ UNCHANGED <<mapVars, genVars, poolVars>>

CallNoiseToTilemap ==
    /\ postCall = NoPost
    /\ \E noiseMap \in NoiseMaps, heightToTile \in ConfigMaps :
          /\ postCall' = [fn |-> "noise_to_tilemap", noiseMap |-> noiseMap,
                          heightToTile |-> heightToTile]
          /\ postOut' = Returned(noise_to_tilemap(noiseMap, heightToTile))
    /\ UNCHANGED <<mapVars, genVars, poolVars>>

CallCalculateBitmask ==
    /\ postCall = NoPost
    /\ \E tilemap \in Tilemaps, x \in TileCoordVals, y \in TileCoordVals,
          include8Direction \in BOOLEAN :
          /\ x < Len(tilemap[1])
          /\ y < Len(tilemap)
          /\ postCall' = [fn |-> "calculate_bitmask", tilemap |-> tilemap,
                          x |-> x, y |-> y, solidTileId |-> 1,
                          include8Direction |-> include8Direction]
          /\ postOut' = Returned(calculate_bitmask(tilemap, x, y, 1,
                                                   include8Direction))
    /\ UNCHANGED <<mapVars, genVars, poolVars>>

CallAutotiling16 ==
    /\ postCall = NoPost
    /\ \E tilemap \in Tilemaps, solidTileId \in TileVals :
          /\ postCall' = [fn |-> "apply_autotiling_16", tilemap |-> tilemap,
                          solidTileId |-> solidTileId]
          /\ postOut' = Returned(apply_autotiling_16(tilemap, solidTileId))
    /\ UNCHANGED <<mapVars, genVars, poolVars>>

CallAutotiling48 ==
    /\ postCall = NoPost
    /\ \E tilemap \in Tilemaps, solidTileId \in TileVals :
          /\ postCall' = [fn |-> "apply_autotiling_48", tilemap |-> tilemap,
                          solidTileId |-> solidTileId]
          /\ postOut' = Returned(apply_autotiling_48(tilemap, solidTileId))
    /\ UNCHANGED <<mapVars, genVars, poolVars>>

NextTile ==
    \/ CallGetTileForHeight
    \/ CallNoiseToTilemap
    \/ CallCalculateBitmask
    \/ CallAutotiling16
    \/ CallAutotiling48
    \/ PostFinish

SpecTile == Init /\ [][NextTile]_vars

\* ------------------------------------------------------------------------
\* Pink noise: the worker pool of generate_pink_map.  Per octave the main
\* thread fills the layer and the integral image, starts numThreads
\* workers, joins them and reads avg.  A worker step is one fetch_add on
\* nextRow or one iteration of its loop over x.
\* ------------------------------------------------------------------------

\* Largest height of a pink map, and largest number of worker threads (the
\* code caps the pool at 8).
MaxPinkRows == 3
MaxThreads == 2

PinkWidthVals == {1, 2}
PinkOctaveVals == {1, 2}
PinkSeedVals == {0, 1}
\* baseSpacing for sampleRate 44100 and for sampleRate 176400
BaseSpacingVals == {1, 2}

ThreadIds == 0 .. MaxThreads - 1

\* the value std::uniform_real_distribution<float>(0, 1) makes of a draw
UniformOf(s) == Lit(s % 16, 16)

\* generate_white_layer for octaveSeed >= 0: target[i] for i in 0 .. n-1
RECURSIVE WhiteDraws(_, _)
WhiteDraws(s, n) ==
    IF n = 0 THEN <<>>
    ELSE <<UniformOf(RngNext(s))>> \o WhiteDraws(RngNext(s), n - 1)

generate_white_layer(width, height, octaveSeed) ==
    LET draws == WhiteDraws(RngSeed(octaveSeed), width * height)
    IN  [i \in 0 .. width * height - 1 |-> draws[i + 1]]

\* rowSum after the loop over x of row y has reached column x
RECURSIVE RowSum(_, _, _, _)
RowSum(src, width, y, x) ==
    IF x = 0 THEN FZero
    ELSE FAdd(RowSum(src, width, y, x - 1), src[(y - 1) * width + x - 1])

\* dst[y * iw + x] of build_integral
RECURSIVE IntegralAt(_, _, _, _)
IntegralAt(src, width, y, x) ==
    IF y = 0 \/ x = 0 THEN FZero
    ELSE FAdd(IntegralAt(src, width, y - 1, x), RowSum(src, width, y, x))

\* build_integral whose rows do not add the entry of the row above
build_integralRowSums(src, width, height) ==
    [i \in 0 .. (width + 1) * (height + 1) - 1 |->
        IF i \div (width + 1) = 0 THEN FZero
        ELSE RowSum(src, width, i \div (width + 1), i % (width + 1))]

build_integral(src, width, height) ==
    [i \in 0 .. (width + 1) * (height + 1) - 1 |->
        IntegralAt(src, width, i \div (width + 1), i % (width + 1))]

Min(a, b) == IF a < b THEN a ELSE b

\* the value the worker stores to avg[y * width + x]
WorkerCellValue(integ, width, height, blockSize, x, y) ==
    LET iw == width + 1
        by == (y \div blockSize) * blockSize
        ey == Min(by + blockSize, height)
        bx == (x \div blockSize) * blockSize
        ex == Min(bx + blockSize, width)
        s  == FAdd(FSub(FSub(integ[ey * iw + ex], integ[by * iw + ex]),
                        integ[ey * iw + bx]),
                   integ[by * iw + bx])
        count == (ey - by) * (ex - bx)
    IN  IF count > 0 THEN FDiv(s, FromInt(count)) ELSE FZero

\* PinkNoise::box_average_from_integral: the buffer `out` it fills
box_average_from_integral(integ, width, height, blockSize) ==
    [i \in 0 .. width * height - 1 |->
        LET y  == i \div width
            x  == i % width
            iw == width + 1
            by == (y \div blockSize) * blockSize
            ey == Min(by + blockSize, height)
            bx == (x \div blockSize) * blockSize
            ex == Min(bx + blockSize, width)
            s  == FAdd(FSub(FSub(integ[ey * iw + ex], integ[by * iw + ex]),
                            integ[ey * iw + bx]),
                       integ[by * iw + bx])
            count == (ey - by) * (ex - bx)
        IN  IF count > 0 THEN FDiv(s, FromInt(count)) ELSE FZero]

\* blockSize of octave o
BlockSize(baseSpacing, o) == baseSpacing * Pow2(o)

\* octaveSeed of octave o for seed >= 0
OctaveSeed(seed, o) == seed + o

\* nextRow after a fetch_add that does not add
FetchAddLost(n) == n

\* nextRow after fetch_add(1)
FetchAdd(n) == n + 1

\* steps 1 and 2 of an octave and the construction of avgBuf, workers and
\* nextRow
PoolSetup(c, o) ==
    /\ pinkOct' = o
    /\ integral' = build_integral(
                       generate_white_layer(c.width, c.height,
                                            OctaveSeed(c.seed, o)),
                       c.width, c.height)
    /\ avg' = [i \in 0 .. c.width * c.height - 1 |-> FZero]
    /\ nextRow' = 0
    /\ workers' = [t \in ThreadIds |-> IdleWorker]
    /\ spawned' = 0
    /\ claimed' = [t \in ThreadIds |-> <<>>]
    /\ writes' = {}

\* entry of generate_pink_map up to the worker pool of octave 0
PinkCall ==
    /\ pinkCall = NoPink
    /\ \E width \in PinkWidthVals, height \in 1 .. MaxPinkRows,
          octaves \in PinkOctaveVals, baseSpacing \in BaseSpacingVals,
          seed \in PinkSeedVals, numThreads \in 1 .. MaxThreads :
          LET c == [width |-> width, height |-> height, octaves |-> octaves,
                    baseSpacing |-> baseSpacing, seed |-> seed,
                    numThreads |-> numThreads]
          IN  /\ pinkCall' = c
              /\ PoolSetup(c, 0)
    /\ phase' = "spawning"
    /\ UNCHANGED <<mapVars, genVars, postVars>>

\* workers.emplace_back(worker)
PinkSpawn ==
    /\ phase = "spawning"
    /\ spawned < pinkCall.numThreads
    /\ workers' = [workers EXCEPT ![spawned] = [pc |-> "fetch", y |-> 0, x |-> 0]]
    /\ spawned' = spawned + 1
    /\ phase' = IF spawned + 1 = pinkCall.numThreads THEN "joining"
                ELSE "spawning"
    /\ UNCHANGED <<pinkCall, pinkOct, integral, avg, nextRow, claimed, writes>>
    /\ UNCHANGED <<mapVars, genVars, postVars>>

\* (y = nextRow.fetch_add(1)) < height
WorkerFetch(t) ==
    /\ phase \in {"spawning", "joining"}
    /\ workers[t].pc = "fetch"
    /\ nextRow' = FetchAdd(nextRow)
    /\ IF nextRow < pinkCall.height
       THEN /\ workers' = [workers EXCEPT
                              ![t] = [pc |-> "row", y |-> nextRow, x |-> 0]]
            /\ claimed' = [claimed EXCEPT ![t] = Append(@, nextRow)]
       ELSE /\ workers' = [workers EXCEPT
                              ![t] = [pc |-> "done", y |-> nextRow, x |-> 0]]
            /\ UNCHANGED claimed
    /\ UNCHANGED <<pinkCall, pinkOct, phase, integral, avg, spawned, writes>>
    /\ UNCHANGED <<mapVars, genVars, postVars>>

\* the index y * width + x of the cell worker t stores to next
CellIndex(t) == workers[t].y * pinkCall.width + workers[t].x

\* the octaves a call runs through
PinkOctaveIndexes == UNION {0 .. k - 1 : k \in PinkOctaveVals}

\* the argument lists the lambda's body is run with
WorkerCellArgs ==
    UNION {{<<build_integral(generate_white_layer(w, h, OctaveSeed(s, o)),
                             w, h),
              w, h, BlockSize(b, o), x, y>> :
                s \in PinkSeedVals, b \in BaseSpacingVals,
                o \in PinkOctaveIndexes, x \in 0 .. w - 1, y \in 0 .. h - 1} :
           w \in PinkWidthVals, h \in 1 .. MaxPinkRows}

\* WorkerCellValue, tabulated once over those argument lists
WorkerCellTable ==
    [a \in WorkerCellArgs |->
        WorkerCellValue(a[1], a[2], a[3], a[4], a[5], a[6])]

\* one iteration of for (x = 0; x < width; ++x)
WorkerCell(t) ==
    /\ phase \in {"spawning", "joining"}
    /\ workers[t].pc = "row"
    /\ avg' = [avg EXCEPT
                  ![CellIndex(t)] =
                      WorkerCellTable[<<integral, pinkCall.width,
                          pinkCall.height,
                          BlockSize(pinkCall.baseSpacing, pinkOct),
                          workers[t].x, workers[t].y>>]]
    /\ writes' = writes \cup {<<t, CellIndex(t)>>}
    /\ workers' = [workers EXCEPT
                      ![t] = IF workers[t].x + 1 < pinkCall.width
                             THEN [@ EXCEPT !.x = @ + 1]
                             ELSE [pc |-> "fetch", y |-> @.y, x |-> 0]]
    /\ UNCHANGED <<pinkCall, pinkOct, phase, integral, nextRow, spawned, claimed>>
    /\ UNCHANGED <<mapVars, genVars, postVars>>

\* for (auto& th : workers) th.join()
PinkJoin ==
    /\ phase = "joining"
    /\ \A t \in 0 .. pinkCall.numThreads - 1 : workers[t].pc = "done"
    /\ phase' = "joined"
    /\ UNCHANGED <<pinkCall, pinkOct, integral, avg, nextRow, workers, spawned,
                   claimed, writes>>
    /\ UNCHANGED <<mapVars, genVars, postVars>>

\* step 4 of the octave, then the next octave up to its worker pool
PinkNextOctave ==
    /\ phase = "joined"
    /\ pinkOct + 1 < pinkCall.octaves
    /\ PoolSetup(pinkCall, pinkOct + 1)
    /\ phase' = "spawning"
    /\ UNCHANGED pinkCall
    /\ UNCHANGED <<mapVars, genVars, postVars>>

\* step 4 of the last octave, the normalisation and the return
PinkReturn ==
    /\ phase = "joined"
    /\ pinkOct + 1 >= pinkCall.octaves
    /\ InitPoolNext
    /\ UNCHANGED <<mapVars, genVars, postVars>>

NextPink ==
    \/ PinkCall
    \/ PinkSpawn
    \/ \E t \in ThreadIds : WorkerFetch(t)
    \/ \E t \in ThreadIds : WorkerCell(t)
    \/ PinkJoin
    \/ PinkNextOctave
    \/ PinkReturn

SpecPink == Init /\ [][NextPink]_vars

\* every started thread and the main thread keep taking steps
SpecPinkFair ==
    /\ SpecPink
    /\ WF_vars(PinkSpawn)
    /\ WF_vars(PinkJoin)
    /\ \A t \in ThreadIds : WF_vars(WorkerFetch(t) \/ WorkerCell(t))

\* ------------------------------------------------------------------------
\* Pink noise: build_integral and box_average_from_integral called on a
\* layer of their own.
\* ------------------------------------------------------------------------

\* Largest number of cells of a layer handed to the two functions.
MaxLayerCells == 4

\* <<width, height>> of the layers
LayerShapes ==
    {s \in (1 .. MaxLayerCells) \X (1 .. MaxLayerCells) :
        s[1] * s[2] <= MaxLayerCells}

\* cell values in [0, 1): one whose sums are exact, two whose sums round
LayerVals == {Lit(1, 2), Lit(1, 10), Lit(7, 10)}

Layers(s) == [0 .. s[1] * s[2] - 1 -> LayerVals]

BoxSizeVals == {1, 2, 3}

\* by, ey, bx, ex of the pixel (x, y)
BoxCorners(width, height, blockSize, x, y) ==
    [by |-> (y \div blockSize) * blockSize,
     ey |-> Min((y \div blockSize) * blockSize + blockSize, height),
     bx |-> (x \div blockSize) * blockSize,
     ex |-> Min((x \div blockSize) * blockSize + blockSize, width)]

\* the four indexes into integral that the pixel (x, y) reads
BoxIndexes(width, height, blockSize, x, y) ==
    LET c  == BoxCorners(width, height, blockSize, x, y)
        iw == width + 1
    IN  {c.ey * iw + c.ex, c.by * iw + c.ex, c.ey * iw + c.bx,
         c.by * iw + c.bx}

\* count of the pixel (x, y)
BoxCount(width, height, blockSize, x, y) ==
    LET c == BoxCorners(width, height, blockSize, x, y)
    IN  (c.ey - c.by) * (c.ex - c.bx)

CallBuildIntegral ==
    /\ postCall = NoPost
    /\ \E s \in LayerShapes :
          \E src \in Layers(s) :
              /\ postCall' = [fn |-> "build_integral", src |-> src,
                              width |-> s[1], height |-> s[2]]
              /\ postOut' = Returned(build_integral(src, s[1], s[2]))
    /\ UNCHANGED <<mapVars, genVars, poolVars>>

CallBoxAverage ==
    /\ postCall = NoPost
    /\ \E s \in LayerShapes, blockSize \in BoxSizeVals :
          \E src \in Layers(s) :
              \E integ \in {build_integral(src, s[1], s[2])} :
                  /\ postCall' = [fn |-> "box_average_from_integral",
                                  src |-> src, integral |-> integ,
                                  width |-> s[1], height |-> s[2],
                                  blockSize |-> blockSize]
                  /\ postOut' = Returned(box_average_from_integral(
                                             integ, s[1], s[2], blockSize))
    /\ UNCHANGED <<mapVars, genVars, poolVars>>

NextIntegral ==
    \/ CallBuildIntegral
    \/ CallBoxAverage
    \/ PostFinish

SpecIntegral == Init /\ [][NextIntegral]_vars

\* ------------------------------------------------------------------------
\* Caves: smooth_cave_cellular_automata on caves large enough to have
\* cells with all eight neighbours inside the grid.
\* ------------------------------------------------------------------------

SmoothIterationVals == {0, 1, 2}

\* <<birthLimit, deathLimit>>: the defaults of CaveParams and three others
CaveLimitVals == {<<4, 3>>, <<6, 5>>, <<3, 7>>, <<9, 0>>}

CallSmoothCaveGrid ==
    /\ postCall = NoPost
    /\ \E cave \in CaveGrids, iterations \in SmoothIterationVals,
          limits \in CaveLimitVals :
          /\ postCall' = [fn |-> "smooth_cave_cellular_automata",
                          cave |-> cave, iterations |-> iterations,
                          birthLimit |-> limits[1], deathLimit |-> limits[2]]
          /\ postOut' = Returned(smooth_cave_cellular_automata(
                                     cave, iterations, limits[1], limits[2]))
    /\ UNCHANGED <<mapVars, genVars, poolVars>>

NextAutomaton ==
    \/ CallSmoothCaveGrid
    \/ PostFinish

SpecAutomaton == Init /\ [][NextAutomaton]_vars

\* ------------------------------------------------------------------------
\* Caves: generate_cave_boolmap (density map, thresholding, smoothing,
\* removal of small regions).
\* ------------------------------------------------------------------------

\* the octave loop of generate_perlin_map from octave o on, and the
\* normalisation after it
RECURSIVE PerlinOctaves(_, _, _, _, _, _, _)
PerlinOctaves(grid, p, c, o, amp, maxAmp, f) ==
    IF o >= c.octaves THEN PerlinNormalize(grid, c, maxAmp)
    ELSE PerlinOctaves(PerlinAccumulate(grid, p, c, f, amp), p, c, o + 1,
                       FMul(amp, c.persistence), FAdd(maxAmp, amp),
                       FMul(f, c.lacunarity))

\* generate_perlin_map for arguments that pass its checks and a seed >= 0
generate_perlin_map(c) ==
    PerlinOctaves(ZeroGrid(c.width, c.height), SeededTables[c.seed + 1], c, 0,
                  FOne, FZero, c.frequency)

generate_cave_density(width, height, params) ==
    generate_perlin_map([width |-> width, height |-> height,
                         scale |-> params.scale, octaves |-> params.octaves,
                         frequency |-> FOne,
                         persistence |-> params.persistence,
                         lacunarity |-> params.lacunarity, base |-> FZero,
                         seed |-> params.seed])

\* float_to_bool_map of a map with rows 0 .. height-1; the result has rows
\* 1 .. height as the caves above
float_to_bool_map(floatMap, threshold, invert) ==
    [y \in 1 .. Cardinality(DOMAIN floatMap) |->
        [x \in 1 .. Cardinality(DOMAIN floatMap[0]) |->
            LET solid == FGt(floatMap[y - 1][x - 1], threshold)
            IN  IF invert THEN ~solid ELSE solid]]

\* steps 3 and 4 of generate_cave_boolmap
SmoothAndClean(cave, params) ==
    LET smoothed == IF params.smoothingIterations > 0
                    THEN smooth_cave_cellular_automata(
                             cave, params.smoothingIterations,
                             params.birthLimit, params.deathLimit)
                    ELSE cave
    IN  IF params.removeSmallRegions
        THEN remove_small_regions(
                 remove_small_regions(smoothed, params.minRegionSize, FALSE),
                 params.minRegionSize, TRUE)
        ELSE smoothed

\* (the thresholded map is bound through a one-element set, which makes
\* TLC evaluate it once)
generate_cave_boolmap(width, height, params) ==
    CHOOSE out \in
        {SmoothAndClean(cave, params) :
            cave \in {float_to_bool_map(
                          generate_cave_density(width, height, params),
                          params.threshold, params.invertThreshold)}} : TRUE

CaveMapParamVals ==
    [scale : CaveScaleVals, octaves : {1, 2},
     persistence : {Lit(1, 2)}, lacunarity : {FromInt(2)},
     seed : CaveSeedVals, threshold : ThresholdVals,
     invertThreshold : BOOLEAN, smoothingIterations : {0, 1},
     birthLimit : {4}, deathLimit : {3}, removeSmallRegions : BOOLEAN,
     minRegionSize : {2}]

CallCaveBoolmap ==
    /\ postCall = NoPost
    /\ \E width \in 1 .. MaxDim, height \in 1 .. MaxDim,
          params \in CaveMapParamVals :
          /\ postCall' = [fn |-> "generate_cave_boolmap", width |-> width,
                          height |-> height, params |-> params]
          /\ postOut' = Returned(generate_cave_boolmap(width, height, params))
    /\ UNCHANGED <<mapVars, genVars, poolVars>>

NextCaveMap ==
    \/ CallCaveBoolmap
    \/ PostFinish

SpecCaveMap == Init /\ [][NextCaveMap]_vars

\* ------------------------------------------------------------------------
\* Terrain as a grid: terrain_to_tilemap and generate_terrain_heightmap.
\* ------------------------------------------------------------------------

\* static_cast<int>(a), which rounds toward zero
static_cast_int(a) ==
    IF a.e >= 0 THEN a.m * Pow2(a.e)
    ELSE IF -a.e > 30 THEN 0
    ELSE Sgn(a.m) * (Abs(a.m) \div Pow2(-a.e))

\* std::clamp on int, for lo <= hi
ClampInt(v, lo, hi) == IF v < lo THEN lo ELSE IF hi < v THEN hi ELSE v

\* groundY of column x (one-based)
GroundRow(terrainHeights, mapHeight, x) ==
    ClampInt(static_cast_int(FMul(terrainHeights[x], FromInt(mapHeight))),
             0, mapHeight - 1)

terrain_to_tilemap(terrainHeights, mapHeight, config) ==
    [y \in 1 .. mapHeight |-> [x \in 1 .. Len(terrainHeights) |->
        IF y - 1 >= GroundRow(terrainHeights, mapHeight, x)
        THEN config.solidTileId ELSE config.airTileId]]

\* terrainY of column x (one-based)
TerrainRow(profile, height, x) ==
    ClampInt(static_cast_int(FMul(FSub(FOne, profile[x]), FromInt(height))),
             0, height - 1)

\* the value of heightmap[y][x] for the zero-based row y
HeightmapCell(terrainY, height, y) ==
    IF y >= terrainY THEN FOne
    ELSE LET dist == FDiv(FromInt(terrainY - y), FromInt(height))
         IN  FMax(FZero, FSub(FOne, FMul(dist, FromInt(2))))

\* the two loops of generate_terrain_heightmap over the profile
RenderHeightmap(profile, height) ==
    [y \in 1 .. height |-> [x \in 1 .. Len(profile) |->
        HeightmapCell(TerrainRow(profile, height, x), height, y - 1)]]

generate_terrain_heightmap(width, height, startX, step, params) ==
    IF width <= 0 THEN Threw("width must be > 0")
    ELSE IF height <= 0 THEN Threw("height must be > 0")
    ELSE CHOOSE out \in
             {IF profile.status = "returned"
              THEN Returned(RenderHeightmap(profile.value, height))
              ELSE profile :
                 profile \in
                     {generate_terrain_profile(width, startX, step, params)}} :
             TRUE

MapHeightVals == 1 .. MaxLen
TileConfigVals ==
    {[solidTileId |-> 1, airTileId |-> 0], [solidTileId |-> 2, airTileId |-> 5]}

\* the parameters of the heightmap calls: one octave, no plateau
HeightmapParamVals ==
    {p \in TerrainParamVals : p.octaves = 1 /\ ~p.enablePlateau /\ p.seed = 0}

CallTerrainToTilemap ==
    /\ postCall = NoPost
    /\ \E terrainHeights \in HeightSeqs, mapHeight \in MapHeightVals,
          config \in TileConfigVals :
          /\ postCall' = [fn |-> "terrain_to_tilemap",
                          terrainHeights |-> terrainHeights,
                          mapHeight |-> mapHeight, config |-> config]
          /\ postOut' = Returned(terrain_to_tilemap(terrainHeights, mapHeight,
                                                    config))
    /\ UNCHANGED <<mapVars, genVars, poolVars>>

CallTerrainHeightmap ==
    /\ postCall = NoPost
    /\ \E width \in WidthVals, height \in 0 .. MaxLen, startX \in StartXVals,
          step \in StepVals, params \in HeightmapParamVals :
          /\ postCall' = [fn |-> "generate_terrain_heightmap",
                          width |-> width, height |-> height,
                          startX |-> startX, step |-> step, params |-> params]
          /\ postOut' = generate_terrain_heightmap(width, height, startX, step,
                                                   params)
    /\ UNCHANGED <<mapVars, genVars, poolVars>>

NextTerrainGrid ==
    \/ CallTerrainToTilemap
    \/ CallTerrainHeightmap
    \/ PostFinish

SpecTerrainGrid == Init /\ [][NextTerrainGrid]_vars

\* ------------------------------------------------------------------------
\* Properties
\* ------------------------------------------------------------------------

CheckOrder == <<"width", "height", "scale", "octaves", "frequency",
                "persistence", "lacunarity">>

\* parameter `name` of call c is outside its documented domain
Offends(c, name) ==
    CASE name = "width"       -> c.width <= 0
      [] name = "height"      -> c.height <= 0
      [] name = "scale"       -> FLe(c.scale, FZero)
      [] name = "octaves"     -> c.octaves < 1
      [] name = "frequency"   -> c.kind = "perlin" /\ FLe(c.frequency, FZero)
      [] name = "persistence" -> FLt(c.persistence, FZero)
                                    \/ FGt(c.persistence, FOne)
      [] name = "lacunarity"  -> FLe(c.lacunarity, FZero)

Offenders(c) == {k \in 1 .. Len(CheckOrder) : Offends(c, CheckOrder[k])}

FirstOffender(c) ==
    CheckOrder[CHOOSE k \in Offenders(c) : \A j \in Offenders(c) : k <= j]

\* C1: a generate_perlin_map or generate_simplex_map call with an argument
\* outside its domain throws an exception that names the first offending
\* parameter in the order width, height, scale, octaves, (frequency),
\* persistence, lacunarity, and carries its value; at that point no
\* generator has been constructed, no entropy drawn and no grid allocated,
\* and the call never gets past the throw.
C1_InvalidArgumentsRejected ==
    (pc # "idle" /\ Offenders(call) # {}) =>
        /\ pc = "thrown"
        /\ err.what = FirstOffender(call)
        /\ err.got = call[FirstOffender(call)]
        /\ gen = <<>>
        /\ entropy = 0
        /\ noise = <<>>

\* a Perlin call that offends in persistence and in lacunarity, and would
\* have drawn entropy, has thrown
C1_Witness ==
    /\ pc = "thrown"
    /\ call.kind = "perlin"
    /\ call.seed < 0
    /\ Offenders(call) = {6, 7}
    /\ err.what = "persistence"

Cells(c) == {<<x, y>> \in (0 .. c.width - 1) \X (0 .. c.height - 1) : TRUE}

InUnit(v) == FGe(v, FZero) /\ FLe(v, FOne)

C3_CellIndependentOfSize ==
    pc = "returned" =>
        \A xy \in Cells(call) :
            noise[xy[2]][xy[1]] =
                IF call.kind = "perlin"
                THEN SamplePerlin(gen, FromInt(xy[1]), FromInt(xy[2]),
                                  FractalParams(call))
                ELSE SampleSimplex(gen, FromInt(xy[1]), FromInt(xy[2]),
                                   FractalParams(call))

\* a Simplex map of several octaves, taller than wide, with a seeded table
C3_Witness ==
    /\ pc = "returned"
    /\ call.kind = "simplex"
    /\ call.seed >= 0
    /\ call.octaves = 2
    /\ call.width = 1
    /\ call.height = 2
    /\ noise[1][0] # noise[0][0]

\* C4: every kernel value PerlinNoise::noise yields for the octave passes
\* lies in [0,1], and every cell of the returned Perlin map lies in [0,1].
C4_PerlinRange ==
    call.kind = "perlin" =>
        /\ (pc = "octaves" /\ oct < call.octaves) =>
               \A xy \in Cells(call) :
                   InUnit(PerlinNoise_noise(gen,
                              SampleCoord(xy[1], call.base, call.scale, freq),
                              SampleCoord(xy[2], call.base, call.scale, freq)))
        /\ pc = "returned" =>
               \A xy \in Cells(call) : InUnit(noise[xy[2]][xy[1]])

\* a returned eight-octave Perlin map with a cell away from the middle value
C4_Witness ==
    /\ pc = "returned"
    /\ call.kind = "perlin"
    /\ call.octaves = 8
    /\ \E xy \in Cells(call) : FGt(noise[xy[2]][xy[1]], Lit(3, 5))
    /\ \E xy \in Cells(call) : FLt(noise[xy[2]][xy[1]], Lit(1, 2))

\* C5: when the octave loop of generate_simplex_map is done, every raw sum
\* divided by the accumulated amplitude lies in [-1,1], and every cell of
\* the returned map lies in [0,1].
C5_SimplexRange ==
    call.kind = "simplex" =>
        /\ (pc = "octaves" /\ oct >= call.octaves) =>
               \A xy \in Cells(call) :
                   LET v == FDiv(noise[xy[2]][xy[1]], maxAmplitude)
                   IN  FGe(v, FNeg(FOne)) /\ FLe(v, FOne)
        /\ pc = "returned" =>
               \A xy \in Cells(call) : InUnit(noise[xy[2]][xy[1]])

\* a returned Simplex map with a cell well above and a cell below the middle
C5_Witness ==
    /\ pc = "returned"
    /\ call.kind = "simplex"
    /\ \E xy \in Cells(call) : FGt(noise[xy[2]][xy[1]], Lit(3, 4))
    /\ \E xy \in Cells(call) : FLt(noise[xy[2]][xy[1]], Lit(1, 2))

Built(k) == inst[k].kind # "none"

Sampled(k) == last[k].kind # "none"

\* C6: two generator objects of the same kind constructed with the same seed
\* >= 0 hold the same table, and the same noise call returns the same value
\* on both; repeating a call on an object returns the same value again; a
\* noise call changes neither an object nor what another object returned.
C6_Determinism ==
    /\ [](\A a \in InstIds, b \in InstIds :
            (/\ Built(a)
             /\ inst[a].kind = inst[b].kind
             /\ inst[a].seed >= 0
             /\ inst[a].seed = inst[b].seed) =>
                /\ inst[a].p = inst[b].p
                /\ (/\ Sampled(a)
                    /\ Sampled(b)
                    /\ last[a].x = last[b].x
                    /\ last[a].y = last[b].y) => last[a].value = last[b].value)
    /\ [][\A k \in InstIds :
            /\ (/\ Sampled(k)
                /\ last'[k].kind # "none"
                /\ last'[k].x = last[k].x
                /\ last'[k].y = last[k].y) => last'[k].value = last[k].value
            /\ (last'[k] # last[k] /\ last'[k].kind # "none") =>
                   /\ inst' = inst
                   /\ \A j \in InstIds \ {k} : last'[j] = last[j]]_vars

\* two Perlin objects, both constructed with seed 0, have answered the same
\* call with a value that is not the middle value
C6_Witness ==
    /\ inst[1].kind = "perlin"
    /\ inst[2].kind = "perlin"
    /\ inst[1].seed = 0
    /\ inst[2].seed = 0
    /\ Sampled(1)
    /\ Sampled(2)
    /\ last[1].x = last[2].x
    /\ last[1].y = last[2].y
    /\ last[1].value # Lit(1, 2)

\* 512 entries, the first 256 holding each of 0..255, the second 256 a copy
TableWellFormed(p) ==
    /\ Len(p) = 2 * TableSize
    /\ {At(p, i) : i \in 0 .. TableSize - 1} = 0 .. TableSize - 1
    /\ \A i \in 0 .. TableSize - 1 : At(p, i + TableSize) = At(p, i)

\* C7: the table of every generator object, whatever its seed, has 512
\* entries of which the first 256 are a permutation of 0..255 and entry
\* i+256 equals entry i; as long as the object exists its table does not
\* change.
C7_TableShape ==
    /\ [](\A k \in InstIds : Built(k) => TableWellFormed(inst[k].p))
    /\ [][\A k \in InstIds :
            (Built(k) /\ inst'[k].kind # "none") => inst'[k].p = inst[k].p]_vars

\* a Simplex object seeded from entropy, with a shuffled table, has been
\* queried
C7_Witness ==
    /\ inst[1].kind = "simplex"
    /\ inst[1].seed < 0
    /\ Sampled(1)
    /\ \E i \in 0 .. TableSize - 1 : At(inst[1].p, i) # i

FloorCandidates == -1500 .. 1500

\* the integer n with n <= x < n + 1, for the float x = x.m * 2^(x.e)
MathFloor(x) ==
    IF x.e >= 0 THEN x.m * Pow2(x.e)
    ELSE CHOOSE n \in FloorCandidates :
             /\ n * Pow2(-x.e) <= x.m
             /\ x.m < (n + 1) * Pow2(-x.e)

\* C8: the lattice indices of a noise call are the floor of the coordinate
\* (Perlin) or of the skewed coordinate (Simplex), reduced modulo 256 into
\* 0..255, for negative floors as well.
C8_LatticeIndexWraps ==
    \A k \in InstIds :
        /\ last[k].kind = "perlin" =>
               /\ last[k].X = MathFloor(last[k].x) % 256
               /\ last[k].Y = MathFloor(last[k].y) % 256
        /\ last[k].kind = "simplex" =>
               LET s == FMul(FAdd(last[k].x, last[k].y), F2)
               IN  /\ last[k].X = MathFloor(FAdd(last[k].x, s)) % 256
                   /\ last[k].Y = MathFloor(FAdd(last[k].y, s)) % 256

\* a Perlin call at a coordinate whose floor is -257 used index 255
C8_Witness ==
    /\ last[1].kind = "perlin"
    /\ MathFloor(last[1].x) = -257
    /\ last[1].X = 255
    /\ FLt(last[1].y, FZero)

\* the grid has no cell to process
ZeroSize(map) == Len(map) = 0 \/ Len(map[1]) = 0

\* C9: a post-processing utility that is given a zero-size grid signals an
\* EmptyInput error.
C9_EmptyInputSignalled ==
    (postCall.fn # "none" /\ ZeroSize(postCall.map)) =>
        postOut.status = "EmptyInput"

CellValues(map) == {map[y][x] : y \in 1 .. Len(map), x \in 1 .. Len(map[1])}

MinOf(map) == CHOOSE v \in CellValues(map) : \A u \in CellValues(map) : FLe(v, u)

MaxOf(map) == CHOOSE v \in CellValues(map) : \A u \in CellValues(map) : FGe(v, u)

SameDimensions(a, b) ==
    /\ Len(a) = Len(b)
    /\ \A y \in 1 .. Len(a) : Len(a[y]) = Len(b[y])

\* |a - b| < 0.001
Near(a, b) ==
    /\ FLt(FSub(a, b), Lit(1, 1000))
    /\ FLt(FSub(b, a), Lit(1, 1000))

Spread(map) == FGe(FSub(MaxOf(map), MinOf(map)), Lit(1, 10000))

FAbs(a) == [m |-> Abs(a.m), e |-> a.e]

\* the unit in the last place of a
Ulp(a) == IF a.m = 0 THEN FZero ELSE Norm(1, a.e)

SlopeLimited == /\ postCall.fn = "apply_slope_limit"
                /\ FGt(postCall.maxSlope, FZero)
                /\ FLt(postCall.maxSlope, FOne)

\* C12 (as stated): for 0 < maxSlope < 1 apply_slope_limit returns a
\* sequence of the same length in which every pair of adjacent heights
\* differs by at most maxSlope.
C12_SlopeWithinMax ==
    SlopeLimited =>
        /\ Len(postOut.value) = Len(postCall.heights)
        /\ \A i \in 2 .. Len(postOut.value) :
              FLe(FAbs(FSub(postOut.value[i], postOut.value[i - 1])),
                  postCall.maxSlope)

\* C12 (amended): for 0 < maxSlope < 1 apply_slope_limit returns a sequence
\* of the same length in which every pair of adjacent heights differs by at
\* most maxSlope plus one unit in the last place of the larger height of the
\* pair.
C12_SlopeWithinMaxRounded ==
    SlopeLimited =>
        /\ Len(postOut.value) = Len(postCall.heights)
        /\ \A i \in 2 .. Len(postOut.value) :
              LET a == postOut.value[i - 1]
                  b == postOut.value[i]
                  larger == FMax(FAbs(a), FAbs(b))
              IN  FLe(FSub(FAbs(FSub(b, a)), postCall.maxSlope), Ulp(larger))

\* a sequence with a rise and a fall steeper than maxSlope was limited
C12_Witness ==
    /\ SlopeLimited
    /\ Len(postCall.heights) = MaxLen
    /\ FGt(FSub(postCall.heights[2], postCall.heights[1]), postCall.maxSlope)
    /\ FGt(FSub(postCall.heights[2], postCall.heights[3]), postCall.maxSlope)
    /\ postOut.value # postCall.heights

\* C13: a profile generated by generate_terrain_profile with maxSlope = 0 is
\* flat: all adjacent heights are equal.
C13_ZeroSlopeIsFlat ==
    (/\ postCall.fn = "generate_terrain_profile"
     /\ postCall.params.maxSlope = FZero
     /\ postOut.status = "returned")
        => \A i \in 2 .. Len(postOut.value) :
              postOut.value[i] = postOut.value[i - 1]

InHeightRange(h, params) ==
    FGe(h, params.range[1]) /\ FLe(h, params.range[2])

\* C14: for minHeight <= maxHeight every height returned by sample_terrain
\* lies in [minHeight, maxHeight], and so does every element of the profile
\* generate_terrain_profile returns, slope limiting included.
C14_HeightsInRange ==
    /\ postCall.fn = "sample_terrain" =>
          InHeightRange(postOut.value, postCall.params)
    /\ (postCall.fn = "generate_terrain_profile"
        /\ postOut.status = "returned") =>
          \A i \in 1 .. Len(postOut.value) :
              InHeightRange(postOut.value[i], postCall.params)

\* a profile the slope limit changed, with a height that the clamp set to a
\* limit of the range
C14_Witness ==
    /\ postCall.fn = "generate_terrain_profile"
    /\ postOut.status = "returned"
    /\ FGt(postCall.params.maxSlope, FZero)
    /\ FLt(postCall.params.maxSlope, FOne)
    /\ LET raw == [i \in 1 .. postCall.width |->
                      sample_terrain(FAdd(postCall.startX,
                                          FMul(FromInt(i - 1), postCall.step)),
                                     postCall.params)]
       IN  /\ postOut.value # raw
           /\ \E i \in 1 .. postCall.width :
                 raw[i] # TerrainHeight(FAdd(postCall.startX,
                                             FMul(FromInt(i - 1), postCall.step)),
                                        postCall.params)

GridCells(grid) == (1 .. Len(grid)) \X (1 .. Len(grid[1]))

Adjacent(c, d) ==
    \/ c[1] = d[1] /\ Abs(c[2] - d[2]) = 1
    \/ c[2] = d[2] /\ Abs(c[1] - d[1]) = 1

\* the cells joined to a cell of `set` by a 4-connected path of cells whose
\* value is `kind`
RECURSIVE Reach(_, _, _)
Reach(cave, kind, set) ==
    LET more == {d \in GridCells(cave) \ set :
                    /\ cave[d[1]][d[2]] = kind
                    /\ \E c \in set : Adjacent(c, d)}
    IN  IF more = {} THEN set ELSE Reach(cave, kind, set \cup more)

\* the 4-connected regions of cells whose value is `kind`
Components(cave, kind) ==
    {Reach(cave, kind, {c}) : c \in {d \in GridCells(cave) :
                                        cave[d[1]][d[2]] = kind}}

\* row-major position of the first cell of a set of cells
FirstCell(cave, set) ==
    CHOOSE k \in 0 .. Len(cave) * Len(cave[1]) :
        /\ <<(k \div Len(cave[1])) + 1, (k % Len(cave[1])) + 1>> \in set
        /\ \A j \in 0 .. k - 1 :
              <<(j \div Len(cave[1])) + 1, (j % Len(cave[1])) + 1>> \notin set

\* C15: find_regions labels every cell whose value is findSolid with an id
\* >= 0 and every other cell with -1; two labelled cells share an id exactly
\* when a 4-connected path of cells of the same value joins them; the ids
\* are 0 .. k-1, numbered in row-major order of each region's first cell.
C15_RegionsLabelComponents ==
    postCall.fn = "find_regions" =>
        LET cave    == postCall.cave
            kind    == postCall.findSolid
            regions == postOut.value
            comps   == Components(cave, kind)
        IN  /\ Len(regions) = Len(cave)
            /\ \A y \in 1 .. Len(cave) : Len(regions[y]) = Len(cave[y])
            /\ \A c \in GridCells(cave) :
                  IF cave[c[1]][c[2]] = kind
                  THEN regions[c[1]][c[2]] >= 0
                  ELSE regions[c[1]][c[2]] = -1
            /\ \A c, d \in GridCells(cave) :
                  (cave[c[1]][c[2]] = kind /\ cave[d[1]][d[2]] = kind) =>
                      (regions[c[1]][c[2]] = regions[d[1]][d[2]]
                          <=> \E r \in comps : c \in r /\ d \in r)
            /\ {regions[c[1]][c[2]] : c \in GridCells(cave)} \ {-1}
                   = 0 .. Cardinality(comps) - 1
            /\ \A r, s \in comps :
                  FirstCell(cave, r) < FirstCell(cave, s) =>
                      \A c \in r, d \in s :
                          regions[c[1]][c[2]] < regions[d[1]][d[2]]

\* a cave with three regions, the first of which reaches a cell to the west
\* of its first cell by way of a lower row
C15_Witness ==
    /\ postCall.fn = "find_regions"
    /\ Cardinality(Components(postCall.cave, postCall.findSolid)) = 3
    /\ \E c, d \in GridCells(postCall.cave) :
          /\ postOut.value[c[1]][c[2]] = 0
          /\ postOut.value[d[1]][d[2]] = 0
          /\ d[1] > c[1]
          /\ d[2] < c[2]
          /\ \A b \in GridCells(postCall.cave) :
                postOut.value[b[1]][b[2]] = 0 => b[1] >= c[1]

TargetKind == ~postCall.removeAir

IsSparedRegion(r) ==
    LET before == Components(postCall.cave, TargetKind)
    IN  /\ r \in before
        /\ \A s \in before :
              /\ Cardinality(s) <= Cardinality(r)
              /\ Cardinality(s) = Cardinality(r) =>
                    FirstCell(postCall.cave, r) <= FirstCell(postCall.cave, s)

TileOfGreatestThreshold(height, heightToTile) ==
    LET below == {k \in DOMAIN heightToTile : FLe(k, height)}
    IN  IF below = {} THEN 0
        ELSE heightToTile[CHOOSE k \in below : \A j \in below : FLe(j, k)]

\* C17: get_tile_for_height returns the tile id of the greatest threshold
\* that is <= height, and 0 when height is below every threshold or the map
\* is empty; noise_to_tilemap applies this to every cell and preserves the
\* grid dimensions.
C17_TileOfGreatestThreshold ==
    /\ postCall.fn = "get_tile_for_height" =>
          postOut.value =
              TileOfGreatestThreshold(postCall.height, postCall.heightToTile)
    /\ postCall.fn = "noise_to_tilemap" =>
          /\ Len(postOut.value) = Len(postCall.noiseMap)
          /\ \A y \in 1 .. Len(postCall.noiseMap) :
                /\ Len(postOut.value[y]) = Len(postCall.noiseMap[y])
                /\ \A x \in 1 .. Len(postCall.noiseMap[y]) :
                      postOut.value[y][x] =
                          TileOfGreatestThreshold(postCall.noiseMap[y][x],
                                                  postCall.heightToTile)

\* a height equal to the second of three thresholds got that threshold's id
C17_Witness ==
    /\ postCall.fn = "get_tile_for_height"
    /\ Cardinality(DOMAIN postCall.heightToTile) = 3
    /\ postCall.height \in DOMAIN postCall.heightToTile
    /\ \E k \in DOMAIN postCall.heightToTile : FLt(k, postCall.height)
    /\ \E k \in DOMAIN postCall.heightToTile : FGt(k, postCall.height)
    /\ postOut.value = postCall.heightToTile[postCall.height]
    /\ \E k \in DOMAIN postCall.heightToTile :
          postCall.heightToTile[k] # postOut.value

\* 1 when the cell at zero-based (nx, ny) lies in the tilemap and holds
\* solidTileId, else 0
SolidAt(tilemap, solidTileId, nx, ny) ==
    IF /\ nx \in 0 .. Len(tilemap[1]) - 1
       /\ ny \in 0 .. Len(tilemap) - 1
       /\ tilemap[ny + 1][nx + 1] = solidTileId
    THEN 1 ELSE 0

\* the weighted sum of the solid neighbours of (x, y)
NeighbourSum(tilemap, solidTileId, x, y, diagonals) ==
    1 * SolidAt(tilemap, solidTileId, x, y - 1)
    + 2 * SolidAt(tilemap, solidTileId, x + 1, y)
    + 4 * SolidAt(tilemap, solidTileId, x, y + 1)
    + 8 * SolidAt(tilemap, solidTileId, x - 1, y)
    + (IF diagonals
       THEN 16 * SolidAt(tilemap, solidTileId, x + 1, y - 1)
            + 32 * SolidAt(tilemap, solidTileId, x + 1, y + 1)
            + 64 * SolidAt(tilemap, solidTileId, x - 1, y + 1)
            + 128 * SolidAt(tilemap, solidTileId, x - 1, y - 1)
       ELSE 0)

\* C18: calculate_bitmask is the sum of N=1, E=2, S=4, W=8 (and NE=16,
\* SE=32, SW=64, NW=128 in 8-direction mode) over the in-bounds neighbours
\* equal to solidTileId, hence within 0..15 or 0..255; apply_autotiling_16
\* and apply_autotiling_48 replace each cell equal to solidTileId by the
\* bitmask computed on the input tilemap and leave every other cell as it
\* was.
C18_BitmaskOfNeighbours ==
    /\ postCall.fn = "calculate_bitmask" =>
          /\ postOut.value =
                 NeighbourSum(postCall.tilemap, postCall.solidTileId,
                              postCall.x, postCall.y,
                              postCall.include8Direction)
          /\ postOut.value \in
                 0 .. (IF postCall.include8Direction THEN 255 ELSE 15)
    /\ postCall.fn \in {"apply_autotiling_16", "apply_autotiling_48"} =>
          /\ Len(postOut.value) = Len(postCall.tilemap)
          /\ \A y \in 1 .. Len(postCall.tilemap) :
                /\ Len(postOut.value[y]) = Len(postCall.tilemap[y])
                /\ \A x \in 1 .. Len(postCall.tilemap[y]) :
                      postOut.value[y][x] =
                          IF postCall.tilemap[y][x] = postCall.solidTileId
                          THEN NeighbourSum(postCall.tilemap,
                                   postCall.solidTileId, x - 1, y - 1,
                                   postCall.fn = "apply_autotiling_48")
                          ELSE postCall.tilemap[y][x]

\* a 48-tile pass over a 3x3 tilemap whose cells are solid except the
\* north-east corner: the centre gets every bit but NE, the corner is kept
C18_Witness ==
    /\ postCall.fn = "apply_autotiling_48"
    /\ Len(postCall.tilemap) = 3
    /\ Len(postCall.tilemap[1]) = 3
    /\ postCall.tilemap[1][3] # postCall.solidTileId
    /\ postOut.value[1][3] = postCall.tilemap[1][3]
    /\ postOut.value[2][2] = 239

\* f_o: the frequency of octave o
RECURSIVE OctaveFrequency(_, _)
OctaveFrequency(c, o) ==
    IF o = 0 THEN (IF c.kind = "perlin" THEN c.frequency ELSE FOne)
    ELSE FMul(OctaveFrequency(c, o - 1), c.lacunarity)

\* a_o: the weight of octave o
RECURSIVE OctaveAmplitude(_, _)
OctaveAmplitude(c, o) ==
    IF o = 0 THEN FOne ELSE FMul(OctaveAmplitude(c, o - 1), c.persistence)

\* a_0 + ... + a_(n-1)
RECURSIVE AmplitudeSum(_, _)
AmplitudeSum(c, n) ==
    IF n = 0 THEN FZero
    ELSE FAdd(AmplitudeSum(c, n - 1), OctaveAmplitude(c, n - 1))

Kernel(c, p, nx, ny) ==
    IF c.kind = "perlin" THEN PerlinNoise_noise(p, nx, ny)
    ELSE SimplexNoise_noise2D(p, nx, ny)

\* C19: octave o samples the kernel at ((x+base)/scale * f_o,
\* (y+base)/scale * f_o) with f_0 the frequency argument (1 for Simplex) and
\* f_(o+1) = f_o * lacunarity, and adds the sample weighted by a_o, a_0 = 1,
\* a_(o+1) = a_o * persistence; the returned cell is the weighted sum
\* divided by the sum of the a_o (then * 0.5 + 0.5 for Simplex), and the
\* divisor is at least 1.
C19_OctaveSummation ==
    /\ [](pc = "octaves" =>
            /\ freq = OctaveFrequency(call, oct)
            /\ amplitude = OctaveAmplitude(call, oct)
            /\ maxAmplitude = AmplitudeSum(call, oct)
            /\ oct <= call.octaves
            /\ oct = 0 => noise = ZeroGrid(call.width, call.height)
            /\ oct >= 1 => FGe(maxAmplitude, FOne))
    /\ [][(pc = "octaves" /\ pc' = "octaves") =>
            /\ oct' = oct + 1
            /\ \A xy \in Cells(call) :
                  noise'[xy[2]][xy[1]] =
                      FAdd(noise[xy[2]][xy[1]],
                           FMul(Kernel(call, gen,
                                    SampleCoord(xy[1], call.base, call.scale,
                                                OctaveFrequency(call, oct)),
                                    SampleCoord(xy[2], call.base, call.scale,
                                                OctaveFrequency(call, oct))),
                                OctaveAmplitude(call, oct)))]_vars
    /\ [][(pc = "octaves" /\ pc' = "returned") =>
            /\ oct = call.octaves
            /\ FGe(AmplitudeSum(call, call.octaves), FOne)
            /\ \A xy \in Cells(call) :
                  LET mean == FDiv(noise[xy[2]][xy[1]],
                                   AmplitudeSum(call, call.octaves))
                  IN  noise'[xy[2]][xy[1]] =
                          IF call.kind = "perlin" THEN mean
                          ELSE FAdd(FMul(mean, Lit(1, 2)), Lit(1, 2))]_vars

\* a returned Perlin map of four octaves with frequency 2, persistence 1/2
\* and lacunarity 2, whose divisor is 1 + 1/2 + 1/4 + 1/8
C19_Witness ==
    /\ pc = "returned"
    /\ call.kind = "perlin"
    /\ call.octaves = 4
    /\ call.frequency = FromInt(2)
    /\ call.persistence = Lit(1, 2)
    /\ call.lacunarity = FromInt(2)
    /\ call.width = MaxDim
    /\ maxAmplitude = Lit(15, 8)
    /\ freq = FromInt(32)

Started == {t \in ThreadIds : t < spawned}

RowsOf(t) == {claimed[t][i] : i \in 1 .. Len(claimed[t])}

\* a worker is between its start and its last fetch
WorkersRunning == \E t \in Started : workers[t].pc \in {"fetch", "row"}

\* C20: in the worker pool of an octave every row is claimed by exactly one
\* worker, a worker stores only to avg cells of rows it claimed, the
\* integral image does not change while workers run, all workers terminate,
\* and after the join every avg cell has been stored to and avg is what
\* PinkNoise::box_average_from_integral computes, whatever the number of
\* threads and their interleaving.
C20_WorkerPool ==
    /\ [](phase # "idle" =>
            /\ \A t, u \in Started :
                  \A i \in 1 .. Len(claimed[t]), j \in 1 .. Len(claimed[u]) :
                      claimed[t][i] = claimed[u][j] => (t = u /\ i = j)
            /\ \A t \in Started : RowsOf(t) \subseteq 0 .. pinkCall.height - 1
            /\ \A w \in writes :
                  /\ w[2] \in 0 .. pinkCall.width * pinkCall.height - 1
                  /\ (w[2] \div pinkCall.width) \in RowsOf(w[1])
            /\ phase = "joined" =>
                  /\ UNION {RowsOf(t) : t \in Started} = 0 .. pinkCall.height - 1
                  /\ {w[2] : w \in writes} =
                         0 .. pinkCall.width * pinkCall.height - 1
                  /\ avg = box_average_from_integral(integral, pinkCall.width,
                               pinkCall.height,
                               BlockSize(pinkCall.baseSpacing, pinkOct)))
    /\ [][WorkersRunning => integral' = integral]_vars
    /\ (phase = "spawning") ~> (phase = "joined")

\* the pool of the second octave was joined after each of two workers
\* claimed rows of a map of MaxPinkRows rows
C20_Witness ==
    /\ phase = "joined"
    /\ pinkOct = 1
    /\ pinkCall.height = MaxPinkRows
    /\ pinkCall.width = 2
    /\ pinkCall.numThreads >= 2
    /\ Len(claimed[0]) >= 1
    /\ Len(claimed[1]) >= 1
    /\ claimed[1][1] < claimed[0][1]

\* a float in units of 2^-22, rounded down
Fix(a) ==
    IF a.e + 22 >= 0 THEN a.m * Pow2(a.e + 22)
    ELSE IF -(a.e + 22) > 30 THEN (IF a.m < 0 THEN -1 ELSE 0)
    ELSE a.m \div Pow2(-(a.e + 22))

\* the sum of src over rows 0 .. y-1 and columns 0 .. x-1, in those units
RECURSIVE ExactRow(_, _, _, _)
ExactRow(src, width, r, x) ==
    IF x = 0 THEN 0
    ELSE ExactRow(src, width, r, x - 1) + Fix(src[r * width + x - 1])

RECURSIVE ExactSum(_, _, _, _)
ExactSum(src, width, y, x) ==
    IF y = 0 THEN 0
    ELSE ExactSum(src, width, y - 1, x) + ExactRow(src, width, y - 1, x)

\* the sum of src over the block of the pixel (x, y), in those units
ExactBlock(src, width, height, blockSize, x, y) ==
    LET by == (y \div blockSize) * blockSize
        bx == (x \div blockSize) * blockSize
        ey == IF by + blockSize < height THEN by + blockSize ELSE height
        ex == IF bx + blockSize < width THEN bx + blockSize ELSE width
    IN  ExactSum(src, width, ey, ex) - ExactSum(src, width, by, ex)
            - ExactSum(src, width, ey, bx) + ExactSum(src, width, by, bx)

\* the number of cells of that block
BlockCells(width, height, blockSize, x, y) ==
    LET by == (y \div blockSize) * blockSize
        bx == (x \div blockSize) * blockSize
        ey == IF by + blockSize < height THEN by + blockSize ELSE height
        ex == IF bx + blockSize < width THEN bx + blockSize ELSE width
    IN  (ey - by) * (ex - bx)

IntegralBuilt ==
    postCall.fn \in {"build_integral", "box_average_from_integral"}

IntegralOf == IF postCall.fn = "build_integral" THEN postOut.value
              ELSE postCall.integral

BoxAveraged == postCall.fn = "box_average_from_integral"

\* row 0 and column 0 of the integral are zero, every index a pixel reads is
\* inside the buffer and every block has cells
IntegralFrame ==
    /\ IntegralBuilt =>
          /\ DOMAIN IntegralOf =
                 0 .. (postCall.width + 1) * (postCall.height + 1) - 1
          /\ \A x \in 0 .. postCall.width : IntegralOf[x] = FZero
          /\ \A y \in 0 .. postCall.height :
                 IntegralOf[y * (postCall.width + 1)] = FZero
    /\ BoxAveraged =>
          /\ DOMAIN postOut.value = 0 .. postCall.width * postCall.height - 1
          /\ \A x \in 0 .. postCall.width - 1, y \in 0 .. postCall.height - 1 :
                /\ BoxIndexes(postCall.width, postCall.height,
                              postCall.blockSize, x, y)
                       \subseteq DOMAIN postCall.integral
                /\ BoxCount(postCall.width, postCall.height,
                            postCall.blockSize, x, y) > 0
                /\ BoxCount(postCall.width, postCall.height,
                            postCall.blockSize, x, y) =
                       BlockCells(postCall.width, postCall.height,
                                  postCall.blockSize, x, y)

\* the unit in the last place of the largest entry of the integral, in
\* units of 2^-22
TopUlp ==
    Fix(Ulp(IntegralOf[(postCall.width + 1) * (postCall.height + 1) - 1]))

\* the distance of entry (y, x) of the integral from the sum it stands for
IntegralError(y, x) ==
    Abs(Fix(IntegralOf[y * (postCall.width + 1) + x])
            - ExactSum(postCall.src, postCall.width, y, x))

\* count times the distance of the average of pixel (x, y) from the mean of
\* its block
AverageError(x, y) ==
    Abs(BlockCells(postCall.width, postCall.height, postCall.blockSize, x, y)
            * Fix(postOut.value[y * postCall.width + x])
        - ExactBlock(postCall.src, postCall.width, postCall.height,
                     postCall.blockSize, x, y))

\* C21 (as stated): every entry of the integral is the sum of src over the
\* rows and columns before it, and every box average is the mean of src over
\* the pixel's block truncated at the grid edge (each as the float nearest
\* to that number); row 0 and column 0 are zero, every index used is inside
\* the buffer and every block has cells.
C21_IntegralAndBoxAverage ==
    /\ IntegralFrame
    /\ IntegralBuilt =>
          \A y \in 0 .. postCall.height, x \in 0 .. postCall.width :
              2 * IntegralError(y, x) <=
                  Fix(Ulp(IntegralOf[y * (postCall.width + 1) + x])) + 2
    /\ BoxAveraged =>
          \A x \in 0 .. postCall.width - 1, y \in 0 .. postCall.height - 1 :
              2 * AverageError(x, y) <=
                  BlockCells(postCall.width, postCall.height,
                             postCall.blockSize, x, y)
                      * (Fix(Ulp(postOut.value[y * postCall.width + x])) + 2)

SrcIsDyadic == \A i \in DOMAIN postCall.src : postCall.src[i] = Lit(1, 2)

\* C21 (amended): row 0 and column 0 of the integral are zero, every index
\* used is inside the buffer and every block has cells; entry (y, x) of the
\* integral is the sum of src over rows 0..y-1 and columns 0..x-1 as
\* accumulated in float, within y * (x + 1) units in the last place of the
\* largest entry of that sum, and the box average of a pixel is the mean of
\* its block within the rounding of the four entries it reads, of the three
\* additions and of the division.  Both are the nearest floats when no
\* addition rounds.
C21_IntegralAndBoxAverageRounded ==
    /\ IntegralFrame
    /\ IntegralBuilt =>
          \A y \in 0 .. postCall.height, x \in 0 .. postCall.width :
              /\ IntegralError(y, x) <= y * (x + 1) * TopUlp
              /\ SrcIsDyadic => IntegralError(y, x) = 0
    /\ BoxAveraged =>
          \A x \in 0 .. postCall.width - 1, y \in 0 .. postCall.height - 1 :
              LET count == BlockCells(postCall.width, postCall.height,
                                      postCall.blockSize, x, y)
                  unit  == Fix(Ulp(postOut.value[y * postCall.width + x])) + 2
              IN  /\ AverageError(x, y) <=
                         (4 * postCall.height * (postCall.width + 1) + 3)
                             * TopUlp + count * unit
                  /\ SrcIsDyadic => 2 * AverageError(x, y) <= count * unit

\* the averages of a 2x2 layer with blockSize 1 were computed from an
\* integral whose additions rounded
C21_Witness ==
    /\ BoxAveraged
    /\ postCall.width = 2
    /\ postCall.height = 2
    /\ postCall.blockSize = 1
    /\ postOut.status = "returned"
    /\ IntegralError(2, 2) > 0
    /\ \E i \in DOMAIN postCall.src : postOut.value[i] # postCall.src[i]

\* the cells of the grid among the eight around cell c
MooreCells(grid, c) ==
    {d \in GridCells(grid) :
        /\ d # c
        /\ Abs(d[1] - c[1]) <= 1
        /\ Abs(d[2] - c[2]) <= 1}

\* the count of solid cells among the eight neighbours of c, those outside
\* the grid counted as solid
SolidAround(grid, c) ==
    8 - Cardinality({d \in MooreCells(grid, c) : ~grid[d[1]][d[2]]})

\* the next generation of a grid, every cell from the grid itself
NextGeneration(grid, birthLimit, deathLimit) ==
    [y \in 1 .. Len(grid) |-> [x \in 1 .. Len(grid[1]) |->
        IF grid[y][x] THEN SolidAround(grid, <<y, x>>) >= deathLimit
        ELSE SolidAround(grid, <<y, x>>) >= birthLimit]]

RECURSIVE Generation(_, _, _, _)
Generation(grid, n, birthLimit, deathLimit) ==
    IF n = 0 THEN grid
    ELSE NextGeneration(Generation(grid, n - 1, birthLimit, deathLimit),
                        birthLimit, deathLimit)

Smoothed == /\ postCall.fn = "smooth_cave_cellular_automata"
            /\ "cave" \in DOMAIN postCall

\* C22: smooth_cave_cellular_automata updates synchronously: the grid after
\* `iterations` iterations is the iterations-th generation of the input,
\* where in every generation a solid cell stays solid exactly when its count
\* of solid cells among the 8 neighbours (out-of-bounds ones counted as
\* solid) is >= deathLimit and an air cell becomes solid exactly when that
\* count is >= birthLimit; with iterations = 0 the grid is unchanged.
C22_SynchronousGenerations ==
    Smoothed =>
        /\ postOut = Returned(Generation(postCall.cave, postCall.iterations,
                                         postCall.birthLimit,
                                         postCall.deathLimit))
        /\ postCall.iterations = 0 => postOut.value = postCall.cave

\* two iterations with limits 6 and 5 on a 3x3 cave after which a solid
\* cell is air and an air cell is solid
C22_Witness ==
    /\ Smoothed
    /\ postCall.iterations = 2
    /\ postCall.birthLimit = 6
    /\ postCall.deathLimit = 5
    /\ Len(postCall.cave) = 3
    /\ Len(postCall.cave[1]) = 3
    /\ \E c \in GridCells(postCall.cave) :
          postCall.cave[c[1]][c[2]] /\ ~postOut.value[c[1]][c[2]]
    /\ \E c \in GridCells(postCall.cave) :
          ~postCall.cave[c[1]][c[2]] /\ postOut.value[c[1]][c[2]]

UnprocessedBoolmap ==
    /\ postCall.fn = "generate_cave_boolmap"
    /\ postCall.params.smoothingIterations = 0
    /\ ~postCall.params.removeSmallRegions

\* C23: with smoothingIterations = 0 and removeSmallRegions = false,
\* generate_cave_boolmap(width, height, params)[y][x] equals
\* sample_cave(x, y, params) for every cell and both values of
\* invertThreshold, a density equal to the threshold included.
C23_BoolmapIsSampleCave ==
    UnprocessedBoolmap =>
        \A y \in 0 .. postCall.height - 1, x \in 0 .. postCall.width - 1 :
            postOut.value[y + 1][x + 1] =
                sample_cave(FromInt(x), FromInt(y), postCall.params)

\* the same for the cells whose density differs from the threshold, and
\* what the two functions make of a density equal to it
BoolmapAgreesOffThreshold ==
    UnprocessedBoolmap =>
        \A y \in 0 .. postCall.height - 1, x \in 0 .. postCall.width - 1 :
            LET density == sample_cave_density(FromInt(x), FromInt(y),
                                               postCall.params)
                cell    == postOut.value[y + 1][x + 1]
                sampled == sample_cave(FromInt(x), FromInt(y),
                                       postCall.params)
            IN  IF density # postCall.params.threshold THEN cell = sampled
                ELSE /\ cell = postCall.params.invertThreshold
                     /\ sampled = FALSE

\* the heights sample_terrain gives at the coordinates of the profile call
SampledProfile ==
    [i \in 1 .. postCall.width |->
        sample_terrain(FAdd(postCall.startX,
                            FMul(FromInt(i - 1), postCall.step)),
                       postCall.params)]

ProfileReturned ==
    postCall.fn = "generate_terrain_profile" /\ postOut.status = "returned"

\* C24: element i of the profile generate_terrain_profile(width, startX,
\* step, params) returns equals sample_terrain(startX + i*step, params) for
\* every i in 0..width-1, so the height at a world x-coordinate does not
\* depend on where the profile starts or how wide it is.
C24_ProfileIsSampleTerrain ==
    ProfileReturned => postOut.value = SampledProfile

\* outside 0 < maxSlope < 1 the profile is the sampled heights
ProfileIsSampledWithoutLimit ==
    (/\ ProfileReturned
     /\ ~(FGt(postCall.params.maxSlope, FZero)
          /\ FLt(postCall.params.maxSlope, FOne)))
        => postOut.value = SampledProfile

\* the cells of tilemap that hold solidTileId
SolidTiles(tilemap, config) ==
    {c \in (1 .. Len(tilemap)) \X (1 .. Len(tilemap[1])) :
        tilemap[c[1]][c[2]] = config.solidTileId}

\* the cells of heightmap that hold the solid value 1.0
SolidCells(heightmap) ==
    {c \in (1 .. Len(heightmap)) \X (1 .. Len(heightmap[1])) :
        heightmap[c[1]][c[2]] = FOne}

\* C25: for the same height sequence and the same map height H,
\* terrain_to_tilemap marks cell (x, y) as solidTileId exactly where
\* generate_terrain_heightmap produces the solid value 1.0.  Checked both
\* ways: on the heights handed to terrain_to_tilemap against the rendering
\* of the heightmap, and on the profile of a heightmap call against its
\* tilemap.
C25_TilemapMatchesHeightmap ==
    /\ (postCall.fn = "terrain_to_tilemap" /\ postCall.terrainHeights # <<>>) =>
          SolidTiles(postOut.value, postCall.config)
              = SolidCells(RenderHeightmap(postCall.terrainHeights,
                                           postCall.mapHeight))
    /\ (postCall.fn = "generate_terrain_heightmap"
        /\ postOut.status = "returned") =>
          \A config \in TileConfigVals :
              SolidTiles(terrain_to_tilemap(
                             generate_terrain_profile(
                                 postCall.width, postCall.startX,
                                 postCall.step, postCall.params).value,
                             postCall.height, config), config)
                  = SolidCells(postOut.value)

\* the number of solid tiles of column x
SolidInColumn(tilemap, config, x) ==
    Cardinality({c \in SolidTiles(tilemap, config) : c[2] = x})

\* within one terrain_to_tilemap call a column with a larger height has at
\* least as many solid tiles as a column with a smaller height
TallerColumnHasMoreSolid ==
    postCall.fn = "terrain_to_tilemap" =>
        \A x1, x2 \in 1 .. Len(postCall.terrainHeights) :
            FLe(postCall.terrainHeights[x1], postCall.terrainHeights[x2])
                => SolidInColumn(postOut.value, postCall.config, x1)
                       <= SolidInColumn(postOut.value, postCall.config, x2)

\* within one terrain_to_tilemap call a column with a larger height has at
\* most as many solid tiles as a column with a smaller height
TallerColumnHasFewerSolid ==
    postCall.fn = "terrain_to_tilemap" =>
        \A x1, x2 \in 1 .. Len(postCall.terrainHeights) :
            FLe(postCall.terrainHeights[x1], postCall.terrainHeights[x2])
                => SolidInColumn(postOut.value, postCall.config, x1)
                       >= SolidInColumn(postOut.value, postCall.config, x2)

\* the cells whose value the call changed
ChangedCells ==
    {c \in GridCells(postCall.cave) :
        postOut.value[c[1]][c[2]] # postCall.cave[c[1]][c[2]]}

SameCellModulo256(x, x2) == (FFloorInt(x2) - FFloorInt(x)) % 256 = 0

\* the offset of x inside its lattice cell
CellOffset(x) == FSub(x, FFloor(x))

=============================================================================
